---- MODULE Spec2Model ----
(***************************************************************************)
(* Model of chr0n-bot (src/ircbot.py, src/main.py): the read loop with its *)
(* line framing, the message parser, the connection lifecycle and the      *)
(* command router.                                                         *)
(*                                                                         *)
(* Text is modelled as a sequence of one-character strings, so that        *)
(* startswith, split, replace and slicing are computed as Python computes  *)
(* them.  A fixed reply text of the bot is abbreviated to one element      *)
(* written in angle brackets ("<only-bud-zone>").                          *)
(***************************************************************************)
EXTENDS Integers, Sequences, FiniteSets, TLC

VARIABLES
    pc,                  \* position of the main thread (see PcValues)
    entry,               \* entry point in use: "run" (ircbot.py) or "main" (main.py)
    config,              \* the NickServ part of the configuration
    sock,                \* self.socket: "none", "unconnected", "open" or "closed"
    connected,           \* self.connected
    buffer,              \* listen(): local buffer (decoded text)
    pending,             \* listen(): lines[:-1] not yet iterated by the for loop
    wire,                \* the messages socket.send has accepted, in order
    received,            \* number of lines received so far
    welcomed,            \* history: a line with verb 001 has been processed
    nickserv_registered, \* self.nickserv_registered
    user_timezones,      \* self.user_timezones: a function whose domain is the keys
    saved,               \* content of the state file (user_timezones part)
    last,                \* history: what the last per-line step did
    stream,              \* framer runs: the whole byte stream the peer sends
    rest,                \* framer runs: the bytes not yet returned by recv
    handed,              \* framer runs: lines handed to per-line processing
    p_line,              \* parser/router runs: the input text
    p_prefix,            \* router runs: the configured command prefix
    p_out,               \* parser/router runs: the result
    s_pc,                \* state runs: "new", "up", "down" (loop left) or "crashed"
    st,                  \* state runs: the in-memory aggregate (see EmptyAggregate)
    toke_file,           \* state runs: the state file toke_data.pkl
    midi,                \* state runs: midi_manager.compositions and the files of midi_files
    s_last,              \* state runs, history: what the last step did
    blazes,              \* state runs, history: blaze invocations per identity
    threads,             \* the background threads the process has started
    t_pc,                \* monitor runs: position of the read loop and of the monitor
    active_420_windows,  \* self.active_420_windows: the keys
    clock_420,           \* window runs: per identity, whether it is 4:20 in its timezone
    midi_player          \* player runs: the SimpleMidiPlayer and its worker threads

vars == <<pc, entry, config, sock, connected, buffer, pending, wire, received, welcomed,
          nickserv_registered, user_timezones, saved, last,
          stream, rest, handed, p_line, p_prefix, p_out,
          s_pc, st, toke_file, midi, s_last, blazes,
          threads, t_pc, active_420_windows, clock_420,
          midi_player>>

sessionVars == <<pc, entry, config, sock, connected, buffer, pending, wire, received,
                 welcomed, nickserv_registered, user_timezones, saved, last>>
framerVars == <<stream, rest, handed>>
pureVars == <<p_line, p_prefix, p_out>>
stateVars == <<s_pc, st, toke_file, midi, s_last, blazes>>
auxVars == <<clock_420, midi_player>>
threadVars == <<threads, t_pc, active_420_windows, auxVars>>

-----------------------------------------------------------------------------
(* Bounds *)

MaxStream == 5       \* longest byte stream of a framer run
MaxChunk == 3        \* most bytes one recv returns in a framer run
MaxLines == 3        \* most lines a session receives
MaxLine == 6         \* longest arbitrary line of a parser run
MaxText == 4         \* longest chat text of a router run
MaxCommands == 2     \* most commands of a state run
MaxBlazes == 3       \* most commands of a tracker run
MaxStarts == 2       \* most starts of the process in a state run
MaxRolls == 3        \* most dice-game commands of a dice-game run
MaxPi == 8           \* most commands of a digit-collection run

-----------------------------------------------------------------------------
(* Python string primitives *)

\* s[n:]
DropN(s, n) == SubSeq(s, n + 1, Len(s))

\* s.startswith(p)
StartsWith(s, p) == Len(s) >= Len(p) /\ SubSeq(s, 1, Len(p)) = p

\* s.find(sep) from position i, 1-based; 0 when absent
RECURSIVE Find(_, _, _)
Find(s, sep, i) ==
    IF i + Len(sep) - 1 > Len(s) THEN 0
    ELSE IF SubSeq(s, i, i + Len(sep) - 1) = sep THEN i
    ELSE Find(s, sep, i + 1)

\* s.split(sep, maxsplit); maxsplit = -1 is "no limit"
RECURSIVE Split(_, _, _)
Split(s, sep, maxsplit) ==
    LET k == Find(s, sep, 1) IN
    IF maxsplit = 0 \/ k = 0 THEN <<s>>
    ELSE <<SubSeq(s, 1, k - 1)>> \o Split(DropN(s, k + Len(sep) - 1), sep, maxsplit - 1)

IsSpace(c) == c \in {" ", "TAB"}

RECURSIVE TokenLen(_)
TokenLen(s) == IF s = <<>> \/ IsSpace(Head(s)) THEN 0 ELSE 1 + TokenLen(Tail(s))

\* s.split(): runs of whitespace separate, no empty token
RECURSIVE SplitWS(_)
SplitWS(s) ==
    IF s = <<>> THEN <<>>
    ELSE IF IsSpace(Head(s)) THEN SplitWS(Tail(s))
    ELSE <<SubSeq(s, 1, TokenLen(s))>> \o SplitWS(DropN(s, TokenLen(s)))

\* s.replace(old, new, 1)
ReplaceFirst(s, old, new) ==
    LET k == Find(s, old, 1) IN
    IF k = 0 THEN s ELSE SubSeq(s, 1, k - 1) \o new \o DropN(s, k + Len(old) - 1)

\* sep.join(parts)
RECURSIVE Join(_, _)
Join(parts, sep) ==
    IF parts = <<>> THEN <<>>
    ELSE IF Len(parts) = 1 THEN parts[1]
    ELSE parts[1] \o sep \o Join(Tail(parts), sep)

UpperCase == <<"A", "B", "C", "D", "E", "F", "G", "H", "I", "J", "K", "L", "M",
               "N", "O", "P", "Q", "R", "S", "T", "U", "V", "W", "X", "Y", "Z">>
LowerCase == <<"a", "b", "c", "d", "e", "f", "g", "h", "i", "j", "k", "l", "m",
               "n", "o", "p", "q", "r", "s", "t", "u", "v", "w", "x", "y", "z">>

LowerChar(c) ==
    IF \E i \in 1..Len(UpperCase) : UpperCase[i] = c
    THEN LowerCase[CHOOSE i \in 1..Len(UpperCase) : UpperCase[i] = c]
    ELSE c

\* s.lower()
Lower(s) == [i \in 1..Len(s) |-> LowerChar(s[i])]

CRLF == <<"CR", "LF">>

-----------------------------------------------------------------------------
(* Line framing: listen(), lines 1625-1634 *)

\* The bytes of a framer run: ASCII "a", CR, LF, and the two bytes 0xC3 0xA9
\* that encode the one character U+00E9.
FramerBytes == {"a", "CR", "LF", "xC3", "xA9"}

\* bytes.decode('utf-8', errors='ignore'): a lead byte followed by its
\* continuation byte is one character; a lead byte with no continuation
\* (another byte follows, or the chunk ends) and a stray continuation byte
\* are dropped.
RECURSIVE Decode(_)
Decode(bytes) ==
    IF bytes = <<>> THEN <<>>
    ELSE IF Head(bytes) = "xC3"
         THEN IF Len(bytes) >= 2 /\ bytes[2] = "xA9"
              THEN <<"U+E9">> \o Decode(DropN(bytes, 2))
              ELSE Decode(Tail(bytes))
    ELSE IF Head(bytes) = "xA9" THEN Decode(Tail(bytes))
    ELSE <<Head(bytes)>> \o Decode(Tail(bytes))

\* lines = buffer.split('\r\n')
SplitLines(text) == Split(text, CRLF, -1)

\* lines[:-1]
AllButLast(lines) == SubSeq(lines, 1, Len(lines) - 1)

\* for line in lines[:-1]: if line: ...   (the lines the loop body acts on)
RECURSIVE NonEmpty(_)
NonEmpty(lines) ==
    IF lines = <<>> THEN <<>>
    ELSE IF Head(lines) = <<>> THEN NonEmpty(Tail(lines))
    ELSE <<Head(lines)>> \o NonEmpty(Tail(lines))

\* One pass of the loop's framing on the decoded chunk `data`.
FrameChunk(buf, data) ==
    LET lines == SplitLines(buf \o data) IN
    [buffer |-> lines[Len(lines)], lines |-> NonEmpty(AllButLast(lines))]

-----------------------------------------------------------------------------
(* Literals of the wire protocol *)

PING == <<"P", "I", "N", "G">>
PONG == <<"P", "O", "N", "G">>
PRIVMSG == <<"P", "R", "I", "V", "M", "S", "G">>
WELCOME == <<"0", "0", "1">>
QuitLine == <<"Q", "U", "I", "T", " ", ":", "B", "o", "t", " ", "s", "h", "u", "t",
              "t", "i", "n", "g", " ", "d", "o", "w", "n">>

-----------------------------------------------------------------------------
(* Configuration: load_config *)

server_nickname == <<"b">>
username == <<"u">>
realname == <<"r">>
channels == << <<"#", "c">>, <<"#", "d">> >>
command_prefix == <<"!">>

\* nickserv_password / nickserv_email (<<>> is None) and nickserv_register
NickservConfigs ==
    { [password |-> <<>>, email |-> <<>>, register |-> FALSE],
      [password |-> <<"p", "w">>, email |-> <<>>, register |-> FALSE],
      [password |-> <<"p", "w">>, email |-> <<"e", "@">>, register |-> TRUE],
      [password |-> <<"p", "w">>, email |-> <<>>, register |-> TRUE] }

-----------------------------------------------------------------------------
(* Message parser: parse_message *)

IndexError == <<"<IndexError>">>

\* parts[i], 0-based in the source, 1-based here
Item(parts, i) == IF i \in 1..Len(parts) THEN parts[i] ELSE IndexError

NotAMessage ==
    [kind |-> "none", prefix |-> <<>>, nick |-> <<>>, command |-> <<>>,
     target |-> <<>>, message |-> <<>>]

ParseRaised ==
    [kind |-> "raise", prefix |-> <<>>, nick |-> <<>>, command |-> <<>>,
     target |-> <<>>, message |-> <<>>]

MinFieldsLow(parts) == Len(parts) < 2
\* if len(parts) < 3: return None
TooFewFields(parts) == Len(parts) < 3

\* parsed_msg['command'] / ['target']: the second and third field, whatever
\* the first field is
CommandField(parts) == Item(parts, 2)
TargetField(parts) == Item(parts, 3)

\* nick = prefix.split('!')[0] if '!' in prefix else ""
NickOfLastSplit(prefix) ==
    IF Find(prefix, <<"!">>, 1) > 0
    THEN LET parts == Split(prefix, <<"!">>, -1) IN
         Join(SubSeq(parts, 1, Len(parts) - 1), <<"!">>)
    ELSE <<>>
NickOf(prefix) ==
    IF Find(prefix, <<"!">>, 1) > 0 THEN Split(prefix, <<"!">>, -1)[1] ELSE <<>>

ParseMessage(raw) ==
    LET parts == Split(raw, <<" ">>, 3)
        prefix == IF StartsWith(Item(parts, 1), <<":">>)
                  THEN DropN(Item(parts, 1), 1) ELSE <<>>
        message == IF Len(parts) > 3 /\ StartsWith(Item(parts, 4), <<":">>)
                   THEN DropN(Item(parts, 4), 1) ELSE <<>>
    IN  IF TooFewFields(parts) THEN NotAMessage
        ELSE IF IndexError \in {CommandField(parts), TargetField(parts)}
        THEN ParseRaised
        ELSE [kind |-> "msg", prefix |-> prefix, nick |-> NickOf(prefix),
              command |-> CommandField(parts), target |-> TargetField(parts),
              message |-> message]

-----------------------------------------------------------------------------
(* Reply emitter: send_raw / send_message / join_channel / handle_ping *)

\* send_raw(message): full_message = message + "\r\n"
SendRaw(message) == message \o CRLF

\* the first k of the lines `writes`, as sent
Sent(writes, k) == [i \in 1..k |-> SendRaw(writes[i])]

\* send_message(channel, message): the line given to send_raw
ChatLine(target, text) == PRIVMSG \o <<" ">> \o target \o <<" ", ":">> \o text

\* join_channel(channel)
JoinLine(channel) == <<"J", "O", "I", "N", " ">> \o channel

NickLine == <<"N", "I", "C", "K", " ">> \o server_nickname
UserLine == <<"U", "S", "E", "R", " ">> \o username
            \o <<" ", "0", " ", "*", " ", ":">> \o realname

\* handle_ping: message.replace("PING", "PONG", 1)
PongSameLine(message) == message
PongLine(message) == ReplaceFirst(message, PING, PONG)

-----------------------------------------------------------------------------
(* Timezone lookup: get_timezone_from_location.  The table is an excerpt of
   the 359 keys of the source, in the order in which the dict holds them.  The
   key 'la' is written twice in the literal (line 251 for Los Angeles, line 349
   for Louisiana): it keeps its first position and has the later value. *)

timezone_map ==
    << [key |-> <<"n", "e", "w", " ", "y", "o", "r", "k">>, tz |-> "America/New_York"],
       [key |-> <<"n", "y", "c">>, tz |-> "America/New_York"],
       [key |-> <<"l", "o", "s", " ", "a", "n", "g", "e", "l", "e", "s">>,
        tz |-> "America/Los_Angeles"],
       [key |-> <<"l", "a">>, tz |-> "America/Chicago"],
       [key |-> <<"c", "h", "i", "c", "a", "g", "o">>, tz |-> "America/Chicago"],
       [key |-> <<"c", "a">>, tz |-> "America/Los_Angeles"],
       [key |-> <<"i", "l">>, tz |-> "America/Chicago"] >>

Contains(s, sub) == Find(s, sub, 1) > 0

RECURSIVE PartialMatch(_, _)
PartialMatch(location, i) ==
    IF i > Len(timezone_map) THEN "None"
    ELSE IF Contains(location, timezone_map[i].key)
            \/ Contains(timezone_map[i].key, location)
         THEN timezone_map[i].tz
    ELSE PartialMatch(location, i + 1)

\* if location in timezone_map: return timezone_map[location]
ExactMatchSkipped(location) == "None"
ExactMatch(location) ==
    LET exact == {i \in 1..Len(timezone_map) : timezone_map[i].key = location} IN
    IF exact # {} THEN timezone_map[CHOOSE i \in exact : TRUE].tz ELSE "None"

get_timezone_from_location(location_parts) ==
    LET location == Lower(Join(location_parts, <<" ">>)) IN
    IF ExactMatch(location) # "None" THEN ExactMatch(location)
    ELSE PartialMatch(location, 1)

\* dict[key] = value
DictSet(d, k, v) == [x \in DOMAIN d \cup {k} |-> IF x = k THEN v ELSE d[x]]

-----------------------------------------------------------------------------
(* Command router: handle_command / handle_private_command *)

BudZone == <<"b", "u", "d", "-", "z", "o", "n", "e">>

\* the verbs handle_command has a branch for
ChannelVerbs ==
    { BudZone, <<"s", "t", "r", "a", "i", "n">>, <<"s", "t", "o", "n", "e", "d">>,
      <<"z", "6">>, <<"t", "i", "m", "e">>, <<"e", "d", "i", "b", "l", "e">>,
      <<"b", "l", "a", "z", "e">>, <<"p", "i">>, <<"p", "i", "-", "s", "h", "o", "w">>,
      <<"t", "-", "b", "r", "e", "a", "k">>, <<"?">>, <<"m", "i", "d", "i">>,
      <<"c", "r", "a", "p", "s">> }

\* the verbs handle_private_command has a branch for
PrivateVerbs == { BudZone }

\* What one handler call does: the lines it passes to send_raw, in order, the
\* timezone mapping it leaves, whether it calls save_toke_data, and whether it
\* raises by itself (a failing send is added by the caller).
Effect(verb, writes, tz, saves, raises) ==
    [verb |-> verb, writes |-> writes, tz |-> tz, saves |-> saves, raises |-> raises]

\* parsed_msg['message'][1:].split()
CommandParts(message, prefix) == SplitWS(DropN(message, 1))

\* the bud-zone branch of handle_command (lines 683-703)
BudZoneChannel(nick, channel, args, tz) ==
    IF args = <<>>
    THEN IF nick \in DOMAIN tz
         THEN Effect("bud-zone",
                     <<ChatLine(channel, nick \o <<"<zone-is>", tz[nick]>>)>>,
                     tz, FALSE, FALSE)
         ELSE Effect("bud-zone", <<ChatLine(channel, nick \o <<"<no-zone-yet>">>)>>,
                     tz, FALSE, FALSE)
    ELSE LET location_str == Join(args, <<" ">>)
             timezone == get_timezone_from_location(args)
         IN  IF timezone # "None"
             THEN Effect("bud-zone",
                         <<ChatLine(channel, nick \o <<"<zone-set>">> \o location_str
                                             \o <<timezone>>)>>,
                         DictSet(tz, nick, timezone), TRUE, FALSE)
             ELSE Effect("bud-zone",
                         <<ChatLine(channel, nick \o <<"<zone-not-found>">>
                                             \o location_str)>>,
                         tz, FALSE, FALSE)

\* the bud-zone branch of handle_private_command (lines 1539-1560)
BudZonePrivate(nick, args, tz) ==
    IF args = <<>>
    THEN IF nick \in DOMAIN tz
         THEN Effect("bud-zone", <<ChatLine(nick, <<"<zone-is>", tz[nick]>>)>>,
                     tz, FALSE, FALSE)
         ELSE Effect("bud-zone", <<ChatLine(nick, <<"<no-zone-yet>">>)>>,
                     tz, FALSE, FALSE)
    ELSE LET location_str == Join(args, <<" ">>)
             timezone == get_timezone_from_location(args)
         IN  IF timezone # "None"
             THEN Effect("bud-zone",
                         <<ChatLine(nick, <<"<zone-set>">> \o location_str
                                          \o <<timezone>>),
                           ChatLine(nick, <<"<420-based-on>">> \o location_str)>>,
                         DictSet(tz, nick, timezone), TRUE, FALSE)
             ELSE Effect("bud-zone",
                         <<ChatLine(nick, <<"<zone-not-found>">> \o location_str)>>,
                         tz, FALSE, FALSE)

\* the else branch of handle_private_command (lines 1561-1563)
PrivateElseSilent(nick, tz) == Effect("unknown", <<>>, tz, FALSE, FALSE)
PrivateElse(nick, tz) ==
    Effect("unknown", <<ChatLine(nick, <<"<only-bud-zone>">>)>>, tz, FALSE, FALSE)

\* The first lines of both handlers (671-678, 1527-1534): the prefix test and
\* the tokenization of the text into verb and arguments.
Invocation(message, prefix) ==
    IF ~StartsWith(message, prefix)
    THEN [kind |-> "unprefixed", command |-> <<>>, args |-> <<>>]
    ELSE LET command_parts == CommandParts(message, prefix) IN
         IF command_parts = <<>>
         THEN [kind |-> "IndexError", command |-> <<>>, args |-> <<>>]
         ELSE [kind |-> "cmd", command |-> Lower(command_parts[1]),
               args |-> Tail(command_parts)]

\* handle_command.  The handlers of the verbs other than bud-zone are not part
\* of this model yet; no input of a session names them.
handle_command(parsed_msg, prefix, tz) ==
    LET inv == Invocation(parsed_msg.message, prefix) IN
    IF inv.kind = "unprefixed" THEN Effect("unprefixed", <<>>, tz, FALSE, FALSE)
    ELSE IF inv.kind = "IndexError" THEN Effect("IndexError", <<>>, tz, FALSE, TRUE)
    ELSE IF inv.command = BudZone
    THEN BudZoneChannel(parsed_msg.nick, parsed_msg.target, inv.args, tz)
    ELSE IF inv.command \in ChannelVerbs
    THEN Effect("handled", <<>>, tz, FALSE, FALSE)
    ELSE Effect("unknown", <<>>, tz, FALSE, FALSE)

handle_private_command(parsed_msg, prefix, tz) ==
    LET inv == Invocation(parsed_msg.message, prefix) IN
    IF inv.kind = "unprefixed" THEN Effect("unprefixed", <<>>, tz, FALSE, FALSE)
    ELSE IF inv.kind = "IndexError" THEN Effect("IndexError", <<>>, tz, FALSE, TRUE)
    ELSE IF inv.command = BudZone
    THEN BudZonePrivate(parsed_msg.nick, inv.args, tz)
    ELSE PrivateElse(parsed_msg.nick, tz)

-----------------------------------------------------------------------------
(* The body of the read loop for one line: listen(), lines 1634-1673 *)

\* the NickServ step of the welcome branch (lines 1650-1660)
RegisterBranch(cfg, registered) == cfg.register /\ ~registered
NickservWrites(cfg, registered) ==
    IF RegisterBranch(cfg, registered)
    THEN IF cfg.password # <<>> /\ cfg.email # <<>>
         THEN << <<"P", "R", "I", "V", "M", "S", "G", " ", "N", "i", "c", "k", "S", "e",
                   "r", "v", " ", ":", "R", "E", "G", "I", "S", "T", "E", "R", " ">>
                 \o cfg.password \o <<" ">> \o cfg.email >>
         ELSE <<>>
    ELSE IF cfg.password # <<>> /\ ~cfg.register
         THEN << <<"P", "R", "I", "V", "M", "S", "G", " ", "N", "i", "c", "k", "S", "e",
                   "r", "v", " ", ":", "I", "D", "E", "N", "T", "I", "F", "Y", " ">>
                 \o cfg.password >>
         ELSE <<>>

\* for channel in self.channels: self.join_channel(channel)
JoinWritesReversed(chans) == [i \in 1..Len(chans) |-> JoinLine(chans[Len(chans) + 1 - i])]
JoinWrites(chans) == [i \in 1..Len(chans) |-> JoinLine(chans[i])]

\* if line.startswith("PING"): self.handle_ping(line); continue
IsPing(line) == StartsWith(line, PING)

\* What the loop body does with one line: the branch it takes (route), and
\* the effect of the handler it calls.
LineEffect(line, cfg, registered, tz) ==
    IF IsPing(line)
    THEN [route |-> "ping"] @@ Effect("-", <<PongLine(line)>>, tz, FALSE, FALSE)
    ELSE LET parsed_msg == ParseMessage(line) IN
         IF parsed_msg.kind = "raise"
         THEN [route |-> "parse"] @@ Effect("IndexError", <<>>, tz, FALSE, TRUE)
         ELSE IF parsed_msg.kind = "none"
         THEN [route |-> "notmsg"] @@ Effect("-", <<>>, tz, FALSE, FALSE)
         ELSE IF parsed_msg.command = WELCOME
         THEN [route |-> "welcome"]
              @@ Effect("-", NickservWrites(cfg, registered) \o JoinWrites(channels),
                        tz, FALSE, FALSE)
         ELSE IF parsed_msg.command = PRIVMSG
         THEN IF StartsWith(parsed_msg.target, <<"#">>)
              THEN [route |-> "channel"] @@ handle_command(parsed_msg, command_prefix, tz)
              ELSE IF parsed_msg.target = server_nickname
              THEN [route |-> "private"]
                   @@ handle_private_command(parsed_msg, command_prefix, tz)
              ELSE [route |-> "other"] @@ Effect("-", <<>>, tz, FALSE, FALSE)
         ELSE [route |-> "other"] @@ Effect("-", <<>>, tz, FALSE, FALSE)

-----------------------------------------------------------------------------
(* Python number parsing *)

Digits == <<"0", "1", "2", "3", "4", "5", "6", "7", "8", "9">>

IsDigit(c) == \E i \in 1..Len(Digits) : Digits[i] = c
DigitVal(c) == (CHOOSE i \in 1..Len(Digits) : Digits[i] = c) - 1

RECURSIVE DigitsVal(_)
DigitsVal(s) ==
    IF s = <<>> THEN 0 ELSE 10 * DigitsVal(SubSeq(s, 1, Len(s) - 1)) + DigitVal(s[Len(s)])

ValueError == [ok |-> FALSE, val |-> 0]

\* int(s) on a token: an optional sign and decimal digits; anything else is
\* a ValueError
ParseInt(s) ==
    LET signed == s # <<>> /\ Head(s) \in {"-", "+"}
        body == IF signed THEN Tail(s) ELSE s
    IN  IF body # <<>> /\ \A i \in 1..Len(body) : IsDigit(body[i])
        THEN [ok |-> TRUE,
              val |-> IF signed /\ Head(s) = "-" THEN 0 - DigitsVal(body) ELSE DigitsVal(body)]
        ELSE ValueError

\* float(s) on a token: whether it parses (the value is not used by the
\* model): an optional sign, decimal digits and at most one point.  The other
\* spellings Python accepts (exponents, inf, nan) use letters no input has.
ParseFloat(s) ==
    LET signed == s # <<>> /\ Head(s) \in {"-", "+"}
        body == IF signed THEN Tail(s) ELSE s
        points == {i \in 1..Len(body) : body[i] = "."}
    IN  [ok |-> /\ Cardinality(points) <= 1
                /\ \E i \in 1..Len(body) : IsDigit(body[i])
                /\ \A i \in 1..Len(body) : IsDigit(body[i]) \/ body[i] = ".",
         val |-> 0]

\* d.get(k, default)
DictGet(d, k, default) == IF k \in DOMAIN d THEN d[k] ELSE default

-----------------------------------------------------------------------------
(* The persisted aggregate: __init__, load_toke_data, save_toke_data *)

\* the attributes load_toke_data sets when there is no file (lines 109-121).
\* `unset` names the attributes the bot object does not have.
EmptyAggregate ==
    [toke_data |-> <<>>, tb_enabled |-> <<>>, toke_counts |-> <<>>,
     longest_abstinence |-> <<>>, user_timezones |-> <<>>, precision_timing |-> <<>>,
     pi_progress |-> <<>>, pi_rounds_won |-> <<>>, timezone_points |-> <<>>,
     toke_history |-> <<>>, time_format_mode |-> 0, auto_420_points |-> <<>>,
     craps_games |-> <<>>, unset |-> {}]

\* the dict save_toke_data pickles (lines 127-141)
Data(a) ==
    [timestamps |-> a.toke_data, tb_enabled |-> a.tb_enabled,
     toke_counts |-> a.toke_counts, longest_abstinence |-> a.longest_abstinence,
     user_timezones |-> a.user_timezones, precision_timing |-> a.precision_timing,
     pi_progress |-> a.pi_progress, pi_rounds_won |-> a.pi_rounds_won,
     timezone_points |-> a.timezone_points, toke_history |-> a.toke_history,
     time_format_mode |-> a.time_format_mode, auto_420_points |-> a.auto_420_points,
     craps_games |-> a.craps_games]

\* What a call of save_toke_data can do to the file: write it ("ok"), fail in
\* open ("open-failed", the file stays), or fail after open(..., 'wb') has
\* emptied the file ("emptied": nothing written, "partial": some bytes
\* written).  Building the dict raises AttributeError, after open has emptied
\* the file, when an attribute is not set ("AttributeError").
SaveOutcomes(a) ==
    IF a.unset \cap {"time_format_mode", "auto_420_points"} # {}
    THEN {"open-failed", "AttributeError"}
    ELSE {"ok", "open-failed", "emptied", "partial"}

save_toke_data(a, file, outcome) ==
    CASE outcome = "ok" -> [kind |-> "pickle", data |-> Data(a)]
      [] outcome = "open-failed" -> file
      [] outcome = "emptied" -> [kind |-> "empty"]
      [] outcome = "AttributeError" -> [kind |-> "empty"]
      [] outcome = "partial" -> [kind |-> "truncated"]

\* except Exception as e: self.logger.error(...)   (lines 143-144)
SaveErrorPropagates(outcome) == outcome # "ok"
SaveErrorRaises(outcome) == FALSE

\* What open + pickle.load do with the file (lines 80-81): the exception
\* raised, or the branch taken on the object loaded.  A file cut short raises
\* UnpicklingError, or EOFError when the cut falls where an opcode begins.
LoadOutcomes(file) ==
    CASE file.kind = "absent" -> {"FileNotFoundError"}
      [] file.kind = "empty" -> {"EOFError"}
      [] file.kind = "truncated" -> {"EOFError", "UnpicklingError"}
      [] file.kind = "corrupt" -> {"UnpicklingError"}
      [] file.kind = "oldformat" -> {"migrate"}
      [] file.kind = "pickle" -> {"data"}

\* except (FileNotFoundError, EOFError)   (line 108)
LoadRaises(outcome) == outcome \notin {"FileNotFoundError", "EOFError", "migrate", "data"}

\* the attributes load_toke_data leaves (lines 82-121)
load_toke_data(file, outcome) ==
    CASE outcome = "data" ->
           [toke_data |-> file.data.timestamps, tb_enabled |-> file.data.tb_enabled,
            toke_counts |-> file.data.toke_counts,
            longest_abstinence |-> file.data.longest_abstinence,
            user_timezones |-> file.data.user_timezones,
            precision_timing |-> file.data.precision_timing,
            pi_progress |-> file.data.pi_progress,
            pi_rounds_won |-> file.data.pi_rounds_won,
            timezone_points |-> file.data.timezone_points,
            toke_history |-> file.data.toke_history,
            time_format_mode |-> file.data.time_format_mode,
            auto_420_points |-> file.data.auto_420_points,
            craps_games |-> file.data.craps_games, unset |-> {}]
      [] outcome = "migrate" ->
           [EmptyAggregate EXCEPT !.toke_data = file.data,
                                  !.unset = {"time_format_mode", "auto_420_points",
                                             "craps_games"}]
      [] OTHER -> EmptyAggregate

\* __init__ after load_toke_data: self.craps_games = {}   (line 30)
InitCrapsGames(a) == [a EXCEPT !.craps_games = <<>>, !.unset = @ \ {"craps_games"}]

\* MidiManager(): no composition in memory; the files of midi_files stay
NewMidiManager(m) == [compositions |-> <<>>, files |-> m.files]

-----------------------------------------------------------------------------
(* The handlers of handle_command that read or write the aggregate *)

\* What one handler call does to the aggregate: the lines it passes to
\* send_raw, the aggregate and the midi manager it leaves when it runs to its
\* end, whether it then has called save_toke_data, whether it raises by
\* itself, and whether its sends come before its writes to the aggregate
\* (sendFirst) or after them.
StateEffect(verb, writes, a, m, saves, raises, sendFirst) ==
    [verb |-> verb, writes |-> writes, st |-> a, midi |-> m, saves |-> saves,
     raises |-> raises, sendFirst |-> sendFirst]

\* a handler that replies and leaves everything as it is
Reply(verb, writes, a, m) == StateEffect(verb, writes, a, m, FALSE, FALSE, FALSE)

\* time.time() is modelled in half seconds; int(x) of a difference of two
\* timestamps truncates toward zero
IntSeconds(halves) == IF halves >= 0 THEN halves \div 2 ELSE 0 - ((0 - halves) \div 2)

\* if nick not in self.longest_abstinence or time_diff_seconds > ...[nick]
LongestReplacedAlways(nick, longest_abstinence, time_diff_seconds) == TRUE
LongestReplaced(nick, longest_abstinence, time_diff_seconds) ==
    nick \notin DOMAIN longest_abstinence \/ time_diff_seconds > longest_abstinence[nick]

\* self.toke_counts[nick] += 1   (after the default of 0, lines 1094-1096)
TokeCountKept(toke_counts, nick) == DictSet(toke_counts, nick, DictGet(toke_counts, nick, 0))
TokeCountUp(toke_counts, nick) == DictSet(toke_counts, nick, DictGet(toke_counts, nick, 0) + 1)

\* self.toke_history[nick].append(current_time)   (line 1101)
HistoryPrepend(history, current_time) == <<current_time>> \o history
HistoryAppend(history, current_time) == Append(history, current_time)

\* the blaze branch (lines 1083-1108); current_time is time.time()
Blaze(nick, channel, a, m, current_time) ==
    LET longest ==
            IF nick \in DOMAIN a.toke_data
            THEN LET time_diff_seconds == IntSeconds(current_time - a.toke_data[nick]) IN
                 IF LongestReplaced(nick, a.longest_abstinence, time_diff_seconds)
                 THEN DictSet(a.longest_abstinence, nick, time_diff_seconds)
                 ELSE a.longest_abstinence
            ELSE DictSet(a.longest_abstinence, nick, 0)
        history == DictSet(a.toke_history, nick,
                           HistoryAppend(DictGet(a.toke_history, nick, <<>>),
                                         current_time))
    IN  StateEffect("blaze", <<ChatLine(channel, <<"<sublime-quote>">>)>>,
                    [a EXCEPT !.longest_abstinence = longest,
                              !.toke_counts = TokeCountUp(a.toke_counts, nick),
                              !.toke_history = history,
                              !.toke_data = DictSet(a.toke_data, nick, current_time)],
                    m, TRUE, FALSE, FALSE)

\* if new_total % 420 == 0 and new_total > 0   (line 1187)
RoundWonEveryTime(new_total) == new_total > 0
RoundWon(new_total) == new_total % 420 = 0 /\ new_total > 0

\* the pi branch (lines 1110-1193); is_pi_time is the test of line 1117 on the
\* clock.  The branch of line 1177 is not reached: the digits generated are
\* always as many as end_idx.
Pi(nick, channel, a, m, is_pi_time) ==
    IF ~is_pi_time
    THEN IF nick \in DOMAIN a.pi_progress
         THEN Reply("pi", <<ChatLine(channel, nick \o <<"<pi-collected>",
                                     ToString(a.pi_progress[nick]),
                                     ToString(DictGet(a.pi_rounds_won, nick, 0))>>)>>, a, m)
         ELSE Reply("pi", <<ChatLine(channel, nick \o <<"<pi-none-yet>">>)>>, a, m)
    ELSE LET progress == IF nick \in DOMAIN a.pi_progress THEN a.pi_progress
                         ELSE DictSet(a.pi_progress, nick, 0)
             rounds == IF nick \in DOMAIN a.pi_rounds_won THEN a.pi_rounds_won
                       ELSE DictSet(a.pi_rounds_won, nick, 0)
             current_digits == progress[nick]
             chunk_index == current_digits \div 60
             new_total == current_digits + 60
         IN  IF RoundWon(new_total)
             THEN StateEffect("pi",
                      <<ChatLine(channel, <<"<pi-wins-round>">> \o nick
                                 \o <<ToString(rounds[nick] + 1), "<chunk>",
                                      ToString(chunk_index)>>)>>,
                      [a EXCEPT !.pi_progress = DictSet(progress, nick, new_total),
                                !.pi_rounds_won = DictSet(rounds, nick, rounds[nick] + 1)],
                      m, TRUE, FALSE, FALSE)
             ELSE StateEffect("pi",
                      <<ChatLine(channel, <<"<pi>">> \o nick
                                 \o <<"<chunk>", ToString(chunk_index),
                                      ToString(new_total)>>)>>,
                      [a EXCEPT !.pi_progress = DictSet(progress, nick, new_total),
                                !.pi_rounds_won = rounds],
                      m, TRUE, FALSE, FALSE)

\* the pi-show branch (lines 1195-1236)
PiShow(nick, channel, a, m) ==
    IF nick \notin DOMAIN a.pi_progress \/ a.pi_progress[nick] = 0
    THEN Reply("pi-show", <<ChatLine(channel, nick \o <<"<pi-none-yet>">>)>>, a, m)
    ELSE Reply("pi-show", <<ChatLine(channel, <<"<pi-digits>">> \o nick
                                      \o <<ToString(a.pi_progress[nick]),
                                           ToString(DictGet(a.pi_rounds_won, nick, 0))>>)>>,
               a, m)

\* toke_times = sorted(self.toke_history[nick])   (line 1245)
RECURSIVE sorted(_)
sorted(times) ==
    IF times = <<>> THEN <<>>
    ELSE LET least == CHOOSE i \in 1..Len(times) : \A j \in 1..Len(times) : times[i] <= times[j]
         IN  <<times[least]>>
             \o sorted([k \in 1..(Len(times) - 1) |->
                           IF k < least THEN times[k] ELSE times[k + 1]])

\* longest_gap = max(gaps), the gaps of consecutive entries of the sorted
\* history (lines 1245-1252); the history has at least two entries
LongestGap(history) ==
    LET toke_times == sorted(history)
        gaps == { toke_times[i] - toke_times[i - 1] : i \in 2..Len(toke_times) }
    IN  CHOOSE g \in gaps : \A h \in gaps : g >= h

\* the t-break branch (lines 1238-1273): the reply shows the longest gap in
\* whole seconds
TBreak(nick, channel, a, m) ==
    IF nick \notin DOMAIN a.toke_history \/ Len(a.toke_history[nick]) < 2
    THEN Reply("t-break", <<ChatLine(channel, nick \o <<"<no-t-break-data>">>)>>, a, m)
    ELSE Reply("t-break",
               <<ChatLine(channel,
                          nick \o <<"<longest-t-break>",
                                    ToString(IntSeconds(LongestGap(a.toke_history[nick]))),
                                    "s">>)>>,
               a, m)

\* the time branch (lines 943-1003); passed is current_date >= target_date.
\* The reply is sent before the format flag is toggled and saved; reading
\* the flag raises AttributeError when load_toke_data has not set it.
Time(nick, channel, a, m, passed) ==
    IF passed
    THEN Reply("time", <<ChatLine(channel, nick \o <<"<already-passed>">>)>>, a, m)
    ELSE IF "time_format_mode" \in a.unset
    THEN StateEffect("AttributeError", <<>>, a, m, FALSE, TRUE, FALSE)
    ELSE StateEffect("time",
                     <<ChatLine(channel, nick \o <<"<time-until>",
                                                   ToString(a.time_format_mode)>>)>>,
                     [a EXCEPT !.time_format_mode = 1 - a.time_format_mode],
                     m, TRUE, FALSE, TRUE)

\* {'point': None, 'chips': 100, 'bet': 0, 'wins': 0, 'losses': 0}; the point
\* None is written 0
NewPlayer == [point |-> 0, chips |-> 100, bet |-> 0, wins |-> 0, losses |-> 0]

\* if nick not in self.craps_games: self.craps_games[nick] = {...}
\* (lines 1409-1410)
InitPlayerSkipped(craps_games, nick) == craps_games
InitPlayer(craps_games, nick) ==
    IF nick \in DOMAIN craps_games THEN craps_games
    ELSE DictSet(craps_games, nick, NewPlayer)

\* if bet > player['chips']   (line 1447)
BetNeverAboveChips(bet, player) == FALSE
BetAboveChips(bet, player) == bet > player.chips

\* cashout: player['chips'] += player['bet']   (line 1515)
ReturnedBetHalved(player) == player.bet \div 2
ReturnedBet(player) == player.bet

\* the come-out roll: if total in [7, 11] / elif total in [2, 3, 12]
\* (lines 1471, 1479)
ComeOutWinsOnSeven(total) == total = 7
ComeOutWins(total) == total \in {7, 11}
ComeOutLoses(total) == total \in {2, 3, 12}

\* the craps branch (lines 1404-1525); total is die1 + die2.  The record of
\* a new identity is stored before the arguments are looked at (line 1410);
\* player = self.craps_games[nick] raises KeyError without a record.
Craps(nick, channel, args, a, m, total) ==
    LET games == InitPlayer(a.craps_games, nick)
        player == games[nick]
        seen == [a EXCEPT !.craps_games = games]
        Put(p) == [a EXCEPT !.craps_games = DictSet(games, nick, p)]
        Say(tag) == <<ChatLine(channel, <<tag>> \o nick)>>
        Rolled(tag) == <<ChatLine(channel, <<tag>> \o nick \o <<ToString(total)>>)>>
        subcommand == IF args = <<>> THEN <<>> ELSE Lower(args[1])
    IN  IF nick \notin DOMAIN games
        THEN StateEffect("KeyError", <<>>, a, m, FALSE, TRUE, FALSE)
        ELSE IF args = <<>> THEN Reply("craps", Say("<craps-help>"), seen, m)
        ELSE IF subcommand = <<"s", "t", "a", "t", "u", "s">>
        THEN Reply("craps", Say("<craps-status>"), seen, m)
        ELSE IF subcommand = <<"b", "e", "t">>
        THEN IF Len(args) < 2 THEN Reply("craps", Say("<craps-bet-usage>"), seen, m)
             ELSE IF player.bet > 0 THEN Reply("craps", Say("<craps-already-bet>"), seen, m)
             ELSE LET bet_amount == Lower(args[2])
                      bet == IF bet_amount = <<"a", "l", "l">>
                             THEN [ok |-> TRUE, val |-> player.chips]
                             ELSE ParseInt(bet_amount)
                  IN  IF ~bet.ok THEN Reply("craps", Say("<craps-invalid-bet>"), seen, m)
                      ELSE IF bet.val < 1
                      THEN Reply("craps", Say("<craps-minimum-bet>"), seen, m)
                      ELSE IF BetAboveChips(bet.val, player)
                      THEN Reply("craps", Say("<craps-only-have>"), seen, m)
                      ELSE StateEffect("craps", Say("<craps-bet>"),
                                       Put([player EXCEPT !.bet = bet.val,
                                                          !.chips = @ - bet.val]),
                                       m, TRUE, FALSE, FALSE)
        ELSE IF subcommand = <<"r", "o", "l", "l">>
        THEN IF player.bet = 0 THEN Reply("craps", Say("<craps-bet-first>"), seen, m)
             ELSE IF player.point = 0
             THEN IF ComeOutWins(total)
                  THEN StateEffect("craps", Rolled("<craps-natural>"),
                                   Put([player EXCEPT !.chips = @ + player.bet * 2,
                                                      !.wins = @ + 1, !.bet = 0]),
                                   m, TRUE, FALSE, FALSE)
                  ELSE IF ComeOutLoses(total)
                  THEN StateEffect("craps", Rolled("<craps-lost>"),
                                   Put([player EXCEPT !.losses = @ + 1, !.bet = 0]),
                                   m, TRUE, FALSE, FALSE)
                  ELSE StateEffect("craps", Rolled("<craps-point-set>"),
                                   Put([player EXCEPT !.point = total]),
                                   m, TRUE, FALSE, FALSE)
             ELSE IF total = player.point
             THEN StateEffect("craps", Rolled("<craps-point-made>"),
                              Put([player EXCEPT !.chips = @ + player.bet * 2,
                                                 !.wins = @ + 1, !.point = 0, !.bet = 0]),
                              m, TRUE, FALSE, FALSE)
             ELSE IF total = 7
             THEN StateEffect("craps", Rolled("<craps-seven-out>"),
                              Put([player EXCEPT !.losses = @ + 1, !.point = 0, !.bet = 0]),
                              m, TRUE, FALSE, FALSE)
             ELSE Reply("craps", Rolled("<craps-keep-rolling>"), seen, m)
        ELSE IF subcommand = <<"c", "a", "s", "h", "o", "u", "t">>
        THEN IF player.bet > 0
             THEN StateEffect("craps", Say("<craps-cashed-out>"),
                              Put([player EXCEPT !.chips = @ + ReturnedBet(player),
                                                 !.bet = 0, !.point = 0]),
                              m, TRUE, FALSE, FALSE)
             ELSE Reply("craps", Say("<craps-no-bet>"), seen, m)
        ELSE Reply("craps", Say("<craps-unknown>"), seen, m)

\* MidiComposition(...): tempo 120 and one track; the notes are counted
NewComposition == [tempo |-> 120, tracks |-> 1, notes |-> 0]

\* a file of midi_files that json.load or from_dict fails on
DamagedFile == [tempo |-> 0, tracks |-> 0, notes |-> 0]

\* MidiManager.get_composition: the manager it leaves.  When the file exists
\* and load_composition fails, the composition is not stored and line 243
\* raises KeyError.
get_composition(m, user) ==
    IF user \in DOMAIN m.compositions THEN m
    ELSE IF user \in DOMAIN m.files
    THEN IF m.files[user] = DamagedFile THEN m
         ELSE [m EXCEPT !.compositions = DictSet(@, user, m.files[user])]
    ELSE [m EXCEPT !.compositions = DictSet(@, user, NewComposition)]

\* MidiManager.save_composition: "ok", "open-failed" (the file stays) or
\* "damaged" (open(..., 'w') has emptied the file and the dump failed)
MidiSaveOutcomes == {"ok", "open-failed", "damaged"}

save_composition(m, user, outcome) ==
    CASE outcome = "ok" -> [m EXCEPT !.files = DictSet(@, user, m.compositions[user])]
      [] outcome = "open-failed" -> m
      [] outcome = "damaged" -> [m EXCEPT !.files = DictSet(@, user, DamagedFile)]

\* the midi branch (lines 1279-1402): help, add and tempo.  The other
\* subcommands are not part of this model; no input names them.
Midi(nick, channel, args, a, m, outcome) ==
    LET Say(tag) == <<ChatLine(channel, nick \o <<tag>>)>>
        subcommand == IF args = <<>> THEN <<>> ELSE Lower(args[1])
        got == get_composition(m, nick)
        KeyError == StateEffect("KeyError", <<>>, a, m, FALSE, TRUE, FALSE)
    IN  IF args = <<>> THEN Reply("midi", Say("<midi-help>"), a, m)
        ELSE IF subcommand = <<"a", "d", "d">>
        THEN IF Len(args) < 6 THEN Reply("midi", Say("<midi-add-usage>"), a, m)
             ELSE IF ~(ParseInt(args[2]).ok /\ ParseInt(args[3]).ok /\ ParseInt(args[4]).ok
                       /\ ParseFloat(args[5]).ok /\ ParseFloat(args[6]).ok)
             THEN Reply("midi", Say("<midi-invalid-parameters>"), a, m)
             ELSE IF nick \notin DOMAIN got.compositions THEN KeyError
             ELSE LET track == ParseInt(args[2]).val
                      comp == got.compositions[nick]
                  IN  IF track >= comp.tracks
                      THEN Reply("midi", Say("<midi-no-such-track>"), a, got)
                      ELSE LET added == IF 0 <= track
                                        THEN [comp EXCEPT !.notes = @ + 1] ELSE comp
                               kept == [got EXCEPT !.compositions[nick] = added]
                           IN  Reply("midi", Say("<midi-added>"), a,
                                     save_composition(kept, nick, outcome))
        ELSE IF subcommand = <<"t", "e", "m", "p", "o">>
        THEN IF Len(args) < 2 THEN Reply("midi", Say("<midi-tempo-usage>"), a, m)
             ELSE LET tempo == ParseInt(args[2]) IN
                  IF ~tempo.ok THEN Reply("midi", Say("<midi-invalid-tempo>"), a, m)
                  ELSE IF tempo.val < 20 \/ tempo.val > 300
                  THEN Reply("midi", Say("<midi-tempo-range>"), a, m)
                  ELSE IF nick \notin DOMAIN got.compositions THEN KeyError
                  ELSE LET kept == [got EXCEPT !.compositions[nick].tempo = tempo.val] IN
                       Reply("midi", Say("<midi-tempo-set>"), a,
                             save_composition(kept, nick, outcome))
        ELSE Reply("midi-other", <<>>, a, m)

\* What the environment decides during one handler call: time.time(), the
\* tests of the wall clock (lines 948 and 1117), random.randint twice, and the
\* fate of the composition's file.  current_time is in half seconds.
Clock == {20, 23, 30}
Dice == 2..12

NoEnv == [current_time |-> 0, is_pi_time |-> FALSE, passed |-> TRUE, total |-> 7,
          midi_save |-> "ok"]

\* the choices the handler of an invocation depends on
EnvOf(inv) ==
    LET subcommand == IF inv.args = <<>> THEN <<>> ELSE Lower(inv.args[1]) IN
    CASE inv.command = <<"b", "l", "a", "z", "e">> ->
           {[NoEnv EXCEPT !.current_time = t] : t \in Clock}
      [] inv.command = <<"p", "i">> -> {[NoEnv EXCEPT !.is_pi_time = b] : b \in BOOLEAN}
      [] inv.command = <<"t", "i", "m", "e">> ->
           {[NoEnv EXCEPT !.passed = b] : b \in BOOLEAN}
      [] inv.command = <<"c", "r", "a", "p", "s">> /\ subcommand = <<"r", "o", "l", "l">> ->
           {[NoEnv EXCEPT !.total = t] : t \in Dice}
      [] inv.command = <<"m", "i", "d", "i">>
         /\ subcommand \in {<<"a", "d", "d">>, <<"t", "e", "m", "p", "o">>} ->
           {[NoEnv EXCEPT !.midi_save = o] : o \in MidiSaveOutcomes}
      [] OTHER -> {NoEnv}

\* handle_command on the whole aggregate (lines 671-1525).  The branches of
\* strain, stoned, z6, edible and ? send one line and touch nothing.
HandleCommand(parsed_msg, prefix, a, m, env) ==
    LET inv == Invocation(parsed_msg.message, prefix)
        nick == parsed_msg.nick
        channel == parsed_msg.target
    IN  IF inv.kind = "unprefixed" THEN Reply("unprefixed", <<>>, a, m)
        ELSE IF inv.kind = "IndexError"
        THEN StateEffect("IndexError", <<>>, a, m, FALSE, TRUE, FALSE)
        ELSE IF inv.command = BudZone
        THEN LET eff == BudZoneChannel(nick, channel, inv.args, a.user_timezones) IN
             StateEffect(eff.verb, eff.writes, [a EXCEPT !.user_timezones = eff.tz], m,
                         eff.saves, eff.raises, FALSE)
        ELSE IF inv.command = <<"t", "i", "m", "e">>
        THEN Time(nick, channel, a, m, env.passed)
        ELSE IF inv.command = <<"b", "l", "a", "z", "e">>
        THEN Blaze(nick, channel, a, m, env.current_time)
        ELSE IF inv.command = <<"p", "i">> THEN Pi(nick, channel, a, m, env.is_pi_time)
        ELSE IF inv.command = <<"p", "i", "-", "s", "h", "o", "w">>
        THEN PiShow(nick, channel, a, m)
        ELSE IF inv.command = <<"t", "-", "b", "r", "e", "a", "k">>
        THEN TBreak(nick, channel, a, m)
        ELSE IF inv.command = <<"m", "i", "d", "i">>
        THEN Midi(nick, channel, inv.args, a, m, env.midi_save)
        ELSE IF inv.command = <<"c", "r", "a", "p", "s">>
        THEN Craps(nick, channel, inv.args, a, m, env.total)
        ELSE IF inv.command \in ChannelVerbs
        THEN Reply("reply-only", <<ChatLine(channel, <<"<text>">>)>>, a, m)
        ELSE Reply("unknown", <<>>, a, m)

\* the values of the state-run variables in the other runs
NoMidi == [compositions |-> <<>>, files |-> <<>>]
NoCommand ==
    [kind |-> "none", nick |-> <<>>, text |-> <<>>, verb |-> "-", sent |-> <<>>,
     sendFailed |-> FALSE, raised |-> FALSE, save |-> "-", load |-> "-",
     current_time |-> 0, is_pi_time |-> FALSE, fresh |-> FALSE, count |-> 0,
     starts |-> 0]

StateIdle ==
    /\ s_pc = "idle"
    /\ st = EmptyAggregate
    /\ toke_file = [kind |-> "absent"]
    /\ midi = NoMidi
    /\ s_last = NoCommand
    /\ blazes = <<>>

-----------------------------------------------------------------------------
(* Inputs of a session *)

\* PING :s
L_ping == <<"P", "I", "N", "G", " ", ":", "s">>
\* PING PRIVMSG #c :!bud-zone la   (a PING line that would parse as a command)
L_pingcmd == <<"P", "I", "N", "G", " ", "P", "R", "I", "V", "M", "S", "G", " ", "#", "c",
               " ", ":", "!", "b", "u", "d", "-", "z", "o", "n", "e", " ", "l", "a">>
\* :s 001 b :hi
L_welcome == <<":", "s", " ", "0", "0", "1", " ", "b", " ", ":", "h", "i">>
\* :a!u PRIVMSG #c :!bud-zone la
L_setzone == <<":", "a", "!", "u", " ", "P", "R", "I", "V", "M", "S", "G", " ", "#", "c",
               " ", ":", "!", "b", "u", "d", "-", "z", "o", "n", "e", " ", "l", "a">>
\* :a!u PRIVMSG #c :!BUD-ZONE
L_showzone == <<":", "a", "!", "u", " ", "P", "R", "I", "V", "M", "S", "G", " ", "#", "c",
                " ", ":", "!", "B", "U", "D", "-", "Z", "O", "N", "E">>
\* :a!u PRIVMSG #c :!zz
L_unknown == <<":", "a", "!", "u", " ", "P", "R", "I", "V", "M", "S", "G", " ", "#", "c",
               " ", ":", "!", "z", "z">>
\* :a!u PRIVMSG b :!zz
L_punknown == <<":", "a", "!", "u", " ", "P", "R", "I", "V", "M", "S", "G", " ", "b",
                " ", ":", "!", "z", "z">>
\* :a!u PRIVMSG b :!bud-zone nyc
L_psetzone == <<":", "a", "!", "u", " ", "P", "R", "I", "V", "M", "S", "G", " ", "b",
                " ", ":", "!", "b", "u", "d", "-", "z", "o", "n", "e", " ", "n", "y", "c">>
\* :a!u PRIVMSG #c :!
L_bare == <<":", "a", "!", "u", " ", "P", "R", "I", "V", "M", "S", "G", " ", "#", "c",
            " ", ":", "!">>
\* x y
L_short == <<"x", " ", "y">>
\* :a!u PRIVMSG #c :hi
L_chat == <<":", "a", "!", "u", " ", "P", "R", "I", "V", "M", "S", "G", " ", "#", "c",
            " ", ":", "h", "i">>
\* :nick!user@host PRIVMSG #c :hi
L_fullprefix == <<":", "n", "i", "c", "k", "!", "u", "s", "e", "r", "@", "h", "o", "s", "t",
                  " ", "P", "R", "I", "V", "M", "S", "G", " ", "#", "c", " ", ":", "h", "i">>
\* PRIVMSG #c :!zz
L_noprefix == <<"P", "R", "I", "V", "M", "S", "G", " ", "#", "c", " ", ":", "!", "z", "z">>

\* the lines a session receives
SampleLines ==
    { L_ping, L_pingcmd, L_welcome, L_setzone, L_showzone, L_unknown, L_punknown, L_psetzone,
      L_bare, L_short }

\* What one recv returns: one line, or two lines the first of which is one of
\* FirstOfTwo, each followed by CRLF (ASCII bytes).
FirstOfTwo == { L_ping, L_bare, L_setzone }
SessionChunks ==
    { l \o CRLF : l \in SampleLines }
    \cup { l \o CRLF \o m \o CRLF : l \in FirstOfTwo, m \in SampleLines }

\* recv(4096).decode('utf-8', errors='ignore') of these chunks
SessionData == { Decode(chunk) : chunk \in SessionChunks }

-----------------------------------------------------------------------------
(* The session: __init__, connect, listen, disconnect, run, main.py *)

PcValues ==
    {"start", "failed", "listen", "lines", "disconnect", "finally", "exited", "exit0",
     "exit1", "interrupted"}

NoStep == [route |-> "-", verb |-> "-", raised |-> FALSE]

FramerIdle == stream = <<>> /\ rest = <<>> /\ handed = <<>>
PureIdle == p_line = <<>> /\ p_prefix = <<>> /\ p_out = NotAMessage

\* IRCBot.__init__ with no state file, then run() or main.py
\* the threads started before the bot is constructed: main.py starts the web
\* server (lines 19-20, a daemon thread that holds no reference to the bot),
\* ircbot.py's main() starts none
ThreadsAtStart(e) == IF e = "main" THEN {"web_server"} ELSE {}

\* the threads listen() starts before its loop: the call of
\* start_420_monitor is commented out (lines 1620-1621)
ListenStartsMonitor == {"monitor_420"}
ListenStarts == {}

\* the positions of the monitor runs in the other runs
NoPositions == [main |-> "-", monitor |-> "-"]

\* the clock of the window runs and the player of the player runs in the
\* other runs
NoClock == <<>>
NoPlayer ==
    [playing |-> FALSE, play_thread |-> 0, workers |-> <<>>, stop_at |-> "-",
     did |-> [actor |-> 0, op |-> "-"]]

Init ==
    /\ pc = "start"
    /\ entry \in {"run", "main"}
    /\ config \in NickservConfigs
    /\ sock = "none"
    /\ connected = FALSE
    /\ buffer = <<>>
    /\ pending = <<>>
    /\ wire = <<>>
    /\ received = 0
    /\ welcomed = FALSE
    /\ nickserv_registered = FALSE
    /\ user_timezones = <<>>
    /\ saved = <<>>
    /\ last = NoStep
    /\ FramerIdle
    /\ PureIdle
    /\ StateIdle
    /\ threads = ThreadsAtStart(entry)
    /\ t_pc = NoPositions
    /\ active_420_windows = {}
    /\ clock_420 = NoClock
    /\ midi_player = NoPlayer

\* connect(): socket.connect raises
ConnectFails ==
    /\ pc = "start"
    /\ sock' = "unconnected"
    /\ pc' = "failed"
    /\ UNCHANGED <<entry, config, connected, buffer, pending, wire, received, welcomed,
                   nickserv_registered, user_timezones, saved, last>>
    /\ UNCHANGED <<framerVars, pureVars, stateVars, threadVars>>

\* the lines connect() sends after socket.connect returned
RegistrationUserFirst == <<UserLine, NickLine>>
Registration == <<NickLine, UserLine>>

\* connect(): socket.connect returns; the first k sends succeed, a failing
\* send makes connect return False
ConnectOpens ==
    /\ pc = "start"
    /\ \E k \in 0..Len(Registration) :
         /\ wire' = wire \o Sent(Registration, k)
         /\ pc' = IF k = Len(Registration) THEN "listen" ELSE "failed"
         /\ threads' = IF k = Len(Registration) THEN threads \cup ListenStarts
                        ELSE threads
    /\ sock' = "open"
    /\ connected' = TRUE
    /\ buffer' = <<>>
    /\ UNCHANGED <<entry, config, pending, received, welcomed, nickserv_registered,
                   user_timezones, saved, last>>
    /\ UNCHANGED <<framerVars, pureVars, stateVars, t_pc, active_420_windows, auxVars>>

\* listen(): recv returns bytes that decode to `data` (lines 1625-1631)
RecvData(datas) ==
    /\ pc = "listen"
    /\ connected
    /\ received < MaxLines
    /\ \E data \in datas :
         \E fr \in {FrameChunk(buffer, data)} :
           /\ data # <<>>
           /\ received + Len(fr.lines) <= MaxLines
           /\ received' = received + Len(fr.lines)
           /\ buffer' = fr.buffer
           /\ pending' = fr.lines
           /\ pc' = IF fr.lines = <<>> THEN "listen" ELSE "lines"
    /\ UNCHANGED <<entry, config, sock, connected, wire, welcomed, nickserv_registered,
                   user_timezones, saved, last>>
    /\ UNCHANGED <<framerVars, pureVars, stateVars, threadVars>>

\* listen(): recv returns b"" (lines 1626-1627)
RecvEof ==
    /\ pc = "listen"
    /\ connected
    /\ last' = [route |-> "eof", verb |-> "-", raised |-> FALSE]
    /\ pc' = "disconnect"
    /\ UNCHANGED <<entry, config, sock, connected, buffer, pending, wire, received,
                   welcomed, nickserv_registered, user_timezones, saved>>
    /\ UNCHANGED <<framerVars, pureVars, stateVars, threadVars>>

\* listen(): recv raises (lines 1675-1677)
RecvError ==
    /\ pc = "listen"
    /\ connected
    /\ last' = [route |-> "readerr", verb |-> "-", raised |-> TRUE]
    /\ pc' = "disconnect"
    /\ UNCHANGED <<entry, config, sock, connected, buffer, pending, wire, received,
                   welcomed, nickserv_registered, user_timezones, saved>>
    /\ UNCHANGED <<framerVars, pureVars, stateVars, threadVars>>

\* where the loop goes after a line: an exception leaves the loop (line 1677)
AfterLineKeepGoing(raised, left) == IF left = <<>> THEN "listen" ELSE "lines"
AfterLine(raised, left) ==
    IF raised THEN "disconnect" ELSE IF left = <<>> THEN "listen" ELSE "lines"

\* listen(): one iteration of `for line in lines[:-1]` (lines 1633-1677).  The
\* first k sends of the handler succeed; a failing send raises.  A failing
\* save_toke_data is swallowed (line 143).
ProcessLine ==
    /\ pc = "lines"
    /\ \E eff \in {LineEffect(Head(pending), config, nickserv_registered,
                              user_timezones)} :
         \E k \in 0..Len(eff.writes), saveOk \in BOOLEAN :
           \E raised \in {eff.raises \/ k < Len(eff.writes)} :
             /\ eff.saves \/ saveOk
             /\ wire' = wire \o Sent(eff.writes, k)
             /\ user_timezones' = eff.tz
             /\ saved' = IF eff.saves /\ saveOk THEN eff.tz ELSE saved
             /\ nickserv_registered' =
                    (nickserv_registered
                     \/ (eff.route = "welcome" /\ k >= 1
                         /\ RegisterBranch(config, nickserv_registered)
                         /\ NickservWrites(config, nickserv_registered) # <<>>))
             /\ welcomed' = (welcomed \/ eff.route = "welcome")
             /\ last' = [route |-> eff.route, verb |-> eff.verb, raised |-> raised]
             /\ pc' = AfterLine(raised, Tail(pending))
    /\ pending' = Tail(pending)
    /\ UNCHANGED <<entry, config, sock, connected, buffer, received>>
    /\ UNCHANGED <<framerVars, pureVars, stateVars, threadVars>>

\* where control goes when listen() returns or raises: run() has a finally
\* clause that calls disconnect() again, main.py ends
AfterListen == IF entry = "run" THEN "finally" ELSE "exited"

\* disconnect() at the end of listen() (line 1679), the QUIT send succeeds
Disconnect ==
    /\ pc = "disconnect"
    /\ sock # "none"
    /\ wire' = Append(wire, SendRaw(QuitLine))
    /\ sock' = "closed"
    /\ connected' = FALSE
    /\ pc' = AfterListen
    /\ UNCHANGED <<entry, config, buffer, pending, received, welcomed,
                   nickserv_registered, user_timezones, saved, last>>
    /\ UNCHANGED <<framerVars, pureVars, stateVars, threadVars>>

\* disconnect() at the end of listen(), the QUIT send raises: close() and
\* connected = False (lines 1685-1686) are not reached
DisconnectSendFails ==
    /\ pc = "disconnect"
    /\ sock # "none"
    /\ pc' = AfterListen
    /\ UNCHANGED <<entry, config, sock, connected, buffer, pending, wire, received,
                   welcomed, nickserv_registered, user_timezones, saved, last>>
    /\ UNCHANGED <<framerVars, pureVars, stateVars, threadVars>>

\* run(): finally: self.disconnect() (line 1699), the QUIT send succeeds;
\* possible only on a socket that is still open
FinallyDisconnect ==
    /\ pc = "finally"
    /\ sock = "open"
    /\ wire' = Append(wire, SendRaw(QuitLine))
    /\ sock' = "closed"
    /\ connected' = FALSE
    /\ pc' = "exited"
    /\ UNCHANGED <<entry, config, buffer, pending, received, welcomed,
                   nickserv_registered, user_timezones, saved, last>>
    /\ UNCHANGED <<framerVars, pureVars, stateVars, threadVars>>

\* run(): finally: self.disconnect(), the QUIT send raises (always so on a
\* closed socket: self.socket still refers to the socket object, so the
\* tests of lines 1683 and 628 pass and socket.send raises OSError); the
\* exception leaves disconnect() and run()
FinallyDisconnectRaises ==
    /\ pc = "finally"
    /\ pc' = "exited"
    /\ last' = [route |-> "finally", verb |-> "OSError", raised |-> TRUE]
    /\ UNCHANGED <<entry, config, sock, connected, buffer, pending, wire, received,
                   welcomed, nickserv_registered, user_timezones, saved>>
    /\ UNCHANGED <<framerVars, pureVars, stateVars, threadVars>>

Next ==
    \/ ConnectFails
    \/ ConnectOpens
    \/ RecvData(SessionData)
    \/ RecvEof
    \/ RecvError
    \/ ProcessLine
    \/ Disconnect
    \/ DisconnectSendFails
    \/ FinallyDisconnect
    \/ FinallyDisconnectRaises

Spec == Init /\ [][Next]_vars

\* What the process does once connect() has returned False: main.py prints
\* and calls sys.exit(1) (lines 31-33); run() logs the failure and returns
\* (lines 1700-1701), main() returns and the interpreter ends with status 0.
ExitAfterFailure ==
    /\ pc = "failed"
    /\ pc' = IF entry = "main" THEN "exit1" ELSE "exit0"
    /\ UNCHANGED <<entry, config, sock, connected, buffer, pending, wire, received,
                   welcomed, nickserv_registered, user_timezones, saved, last>>
    /\ UNCHANGED <<framerVars, pureVars, stateVars, threadVars>>

\* A process interrupt while listen() runs (blocked in recv, or between two
\* lines of a chunk): KeyboardInterrupt is not an Exception, so the handler
\* of line 1675 lets it pass and the disconnect() of line 1679 is skipped.
\* run() catches it (line 1696) and goes on to its finally clause; main.py
\* has only 'except Exception' (line 35), the interpreter prints the
\* traceback and ends.
Interrupt ==
    /\ pc \in {"listen", "lines"}
    /\ pc' = IF entry = "run" THEN "finally" ELSE "interrupted"
    /\ last' = [route |-> "interrupt", verb |-> "-", raised |-> TRUE]
    /\ UNCHANGED <<entry, config, sock, connected, buffer, pending, wire, received,
                   welcomed, nickserv_registered, user_timezones, saved>>
    /\ UNCHANGED <<framerVars, pureVars, stateVars, threadVars>>

LifecycleNext == Next \/ ExitAfterFailure \/ Interrupt

\* the session with the ends of the process
SpecLifecycle == Init /\ [][LifecycleNext]_vars

-----------------------------------------------------------------------------
(* Framer runs: the read loop fed one byte stream cut into chunks.  The lines
   of such a stream hold no space, so the loop body drops each of them
   (parse_message returns None) and `handed` is all the loop body sees. *)

RECURSIVE SeqsUpTo(_, _)
SeqsUpTo(S, n) ==
    IF n = 0 THEN {<<>>}
    ELSE LET shorter == SeqsUpTo(S, n - 1) IN
         shorter \cup {Append(q, x) : q \in {r \in shorter : Len(r) = n - 1}, x \in S}

Min(a, b) == IF a < b THEN a ELSE b

\* the session part of the state in a run that starts inside listen()
InListenWith(clock, simple_player) ==
    /\ pc = "listen"
    /\ entry = "main"
    /\ config = [password |-> <<>>, email |-> <<>>, register |-> FALSE]
    /\ sock = "open"
    /\ connected = TRUE
    /\ buffer = <<>>
    /\ pending = <<>>
    /\ wire = Sent(Registration, Len(Registration))
    /\ received = 0
    /\ welcomed = FALSE
    /\ nickserv_registered = FALSE
    /\ user_timezones = <<>>
    /\ saved = <<>>
    /\ last = NoStep
    /\ threads = ThreadsAtStart("main") \cup ListenStarts
    /\ t_pc = NoPositions
    /\ active_420_windows = {}
    /\ clock_420 = clock
    /\ midi_player = simple_player

InListen == InListenWith(NoClock, NoPlayer)

FramerInit ==
    /\ InListen
    /\ stream \in SeqsUpTo(FramerBytes, MaxStream) \ {<<>>}
    /\ rest = stream
    /\ handed = <<>>
    /\ PureIdle
    /\ StateIdle

\* one pass of the while loop (lines 1625-1634) on the next n bytes
FramerRecv ==
    /\ pc = "listen"
    /\ rest # <<>>
    /\ \E n \in 1..Min(MaxChunk, Len(rest)) :
         \E data \in {Decode(SubSeq(rest, 1, n))} :
           \E fr \in {FrameChunk(buffer, data)} :
             /\ rest' = DropN(rest, n)
             /\ IF data = <<>>
                THEN pc' = "disconnect" /\ UNCHANGED <<buffer, handed>>   \* break
                ELSE /\ pc' = "listen"
                     /\ buffer' = fr.buffer
                     /\ handed' = handed \o fr.lines
    /\ UNCHANGED <<entry, config, sock, connected, pending, wire, received, welcomed,
                   nickserv_registered, user_timezones, saved, last>>
    /\ UNCHANGED <<stream, pureVars, stateVars, threadVars>>

\* the peer closes after the last byte: recv returns b""
FramerEof ==
    /\ pc = "listen"
    /\ rest = <<>>
    /\ pc' = "disconnect"
    /\ UNCHANGED <<entry, config, sock, connected, buffer, pending, wire, received,
                   welcomed, nickserv_registered, user_timezones, saved, last>>
    /\ UNCHANGED <<framerVars, pureVars, stateVars, threadVars>>

FramerNext == FramerRecv \/ FramerEof

SpecFramer == FramerInit /\ [][FramerNext]_vars

\* the same stream arriving in a single chunk
WholeStream == FrameChunk(<<>>, Decode(stream))

-----------------------------------------------------------------------------
(* Parser runs: the loop body applied to one arbitrary line *)

ParseChars == {":", " ", "a", "!"}
ParseLines ==
    (SeqsUpTo(ParseChars, MaxLine) \ {<<>>}) \cup SampleLines
    \cup {L_chat, L_noprefix, L_fullprefix}

ParseInit ==
    /\ InListen
    /\ FramerIdle
    /\ StateIdle
    /\ p_line \in ParseLines
    /\ p_prefix = command_prefix
    /\ p_out = [done |-> FALSE]

\* the loop body on p_line: what parse_message returns, what the branch taken
\* does, and where the loop goes next
ParseStep ==
    /\ ~p_out.done
    /\ \E eff \in {LineEffect(p_line, config, nickserv_registered, user_timezones)} :
         p_out' = [done |-> TRUE,
                   parsed |-> ParseMessage(p_line),
                   eff |-> eff,
                   next |-> AfterLine(eff.raises, <<>>)]
    /\ UNCHANGED <<sessionVars, framerVars, p_line, p_prefix, stateVars, threadVars>>

SpecParse == ParseInit /\ [][ParseStep]_vars

-----------------------------------------------------------------------------
(* Router runs: handle_command applied to one arbitrary chat text under a
   configured prefix *)

RouterChars == {"!", " ", "?", "z", "Z"}
Prefixes == { <<"!">>, <<"!", "!">> }

RouterInit ==
    /\ InListen
    /\ FramerIdle
    /\ StateIdle
    /\ p_line \in SeqsUpTo(RouterChars, MaxText)
    /\ p_prefix \in Prefixes
    /\ p_out = [done |-> FALSE]

ChannelMessage(text) ==
    [kind |-> "msg", prefix |-> <<"a", "!", "u">>, nick |-> <<"a">>,
     command |-> PRIVMSG, target |-> <<"#", "c">>, message |-> text]

RouteStep ==
    /\ ~p_out.done
    /\ p_out' = [done |-> TRUE,
                 inv |-> Invocation(p_line, p_prefix),
                 eff |-> handle_command(ChannelMessage(p_line), p_prefix,
                                        user_timezones)]
    /\ UNCHANGED <<sessionVars, framerVars, p_line, p_prefix, stateVars, threadVars>>

SpecRouter == RouterInit /\ [][RouteStep]_vars

-----------------------------------------------------------------------------
(* State runs: the bot is constructed on a state file, handles chat commands
   of channel #c, stops and is constructed again.  The session variables are
   not used by these runs and stay as they are inside listen(). *)

\* the identities that send commands
Nicks == { <<"a">>, <<"z">> }

\* :<nick>!u PRIVMSG #c :<text>
LineFrom(nick, text) ==
    <<":">> \o nick \o <<"!", "u", " ">> \o PRIVMSG \o <<" ", "#", "c", " ", ":">> \o text

\* !blaze
T_blaze == <<"!", "b", "l", "a", "z", "e">>
\* !time
T_time == <<"!", "t", "i", "m", "e">>
\* !pi
T_pi == <<"!", "p", "i">>
\* !pi-show
T_pishow == <<"!", "p", "i", "-", "s", "h", "o", "w">>
\* !t-break
T_tbreak == <<"!", "t", "-", "b", "r", "e", "a", "k">>
\* !craps status
T_status == <<"!", "c", "r", "a", "p", "s", " ", "s", "t", "a", "t", "u", "s">>
\* !craps bet 5
T_bet5 == <<"!", "c", "r", "a", "p", "s", " ", "b", "e", "t", " ", "5">>
\* !craps bet x
T_betx == <<"!", "c", "r", "a", "p", "s", " ", "b", "e", "t", " ", "x">>
\* !craps bet 0
T_bet0 == <<"!", "c", "r", "a", "p", "s", " ", "b", "e", "t", " ", "0">>
\* !craps bet 200
T_bet200 == <<"!", "c", "r", "a", "p", "s", " ", "b", "e", "t", " ", "2", "0", "0">>
\* !craps bet
T_betnone == <<"!", "c", "r", "a", "p", "s", " ", "b", "e", "t">>
\* !craps roll
T_roll == <<"!", "c", "r", "a", "p", "s", " ", "r", "o", "l", "l">>
\* !craps cashout
T_cashout == <<"!", "c", "r", "a", "p", "s", " ", "c", "a", "s", "h", "o", "u", "t">>
\* !bud-zone Los Angeles CA
T_zone == <<"!", "b", "u", "d", "-", "z", "o", "n", "e", " ", "L", "o", "s", " ", "A",
            "n", "g", "e", "l", "e", "s", " ", "C", "A">>
\* !bud-zone Nowhereville
T_nowhere == <<"!", "b", "u", "d", "-", "z", "o", "n", "e", " ", "N", "o", "w", "h", "e",
               "r", "e", "v", "i", "l", "l", "e">>
\* !bud-zone zz
T_nozone == <<"!", "b", "u", "d", "-", "z", "o", "n", "e", " ", "z", "z">>
\* !bud-zone ca
T_ca == <<"!", "b", "u", "d", "-", "z", "o", "n", "e", " ", "c", "a">>
\* !bud-zone
T_showzone == <<"!", "b", "u", "d", "-", "z", "o", "n", "e">>
\* !midi tempo x
T_tempox == <<"!", "m", "i", "d", "i", " ", "t", "e", "m", "p", "o", " ", "x">>
\* !midi tempo
T_temponone == <<"!", "m", "i", "d", "i", " ", "t", "e", "m", "p", "o">>
\* !midi tempo 90
T_tempo90 == <<"!", "m", "i", "d", "i", " ", "t", "e", "m", "p", "o", " ", "9", "0">>
\* !midi add 0 x 100 0 1
T_addx == <<"!", "m", "i", "d", "i", " ", "a", "d", "d", " ", "0", " ", "x", " ", "1",
            "0", "0", " ", "0", " ", "1">>
\* !midi add 0 60 100 0 1
T_add == <<"!", "m", "i", "d", "i", " ", "a", "d", "d", " ", "0", " ", "6", "0", " ",
           "1", "0", "0", " ", "0", " ", "1">>
\* !midi add 0
T_addfew == <<"!", "m", "i", "d", "i", " ", "a", "d", "d", " ", "0">>
\* !?
T_help == <<"!", "?">>

\* !craps
T_craps == <<"!", "c", "r", "a", "p", "s">>
\* !craps zz
T_crapszz == <<"!", "c", "r", "a", "p", "s", " ", "z", "z">>
\* !craps bet all
T_betall == <<"!", "c", "r", "a", "p", "s", " ", "b", "e", "t", " ", "a", "l", "l">>
\* !toke
T_toke == <<"!", "t", "o", "k", "e">>
\* !joint
T_joint == <<"!", "j", "o", "i", "n", "t">>
\* !dab
T_dab == <<"!", "d", "a", "b">>

PersistTexts == { T_blaze, T_time, T_pi, T_status, T_bet5, T_roll, T_zone }
ErrorTexts ==
    { T_betx, T_betnone, T_bet0, T_bet200, T_bet5, T_nozone, T_tempox, T_temponone,
      T_tempo90, T_addx, T_addfew, T_add }
TrackerTexts == { T_blaze, T_tbreak, T_status }
ZoneTexts == { T_zone, T_nowhere, T_nozone, T_ca, T_showzone, T_help }
PiTexts == { T_pi, T_pishow }
SilentTexts == { T_toke, T_joint, T_dab }
NewTexts ==
    { T_pi, T_pishow, T_tbreak, T_showzone, T_zone, T_craps, T_crapszz, T_status, T_bet5,
      T_roll, T_cashout }

\* the state files a first start can find: none, an empty one, one cut short,
\* one that is no pickle, and one of the old format (a pickled dict of
\* timestamps)
FoundFiles ==
    { [kind |-> "absent"], [kind |-> "empty"], [kind |-> "truncated"],
      [kind |-> "corrupt"],
      [kind |-> "oldformat", data |-> [n \in {<<"a">>} |-> 20]] }

StateInit(files) ==
    /\ InListen
    /\ FramerIdle
    /\ PureIdle
    /\ s_pc = "new"
    /\ st = EmptyAggregate
    /\ toke_file \in files
    /\ midi = NoMidi
    /\ s_last = NoCommand
    /\ blazes = <<>>

\* IRCBot.__init__ (lines 21-30).  When load_toke_data raises there is no
\* bot; st then keeps the placeholder EmptyAggregate.
Construct ==
    /\ s_pc = "new"
    /\ s_last.starts < MaxStarts
    /\ \E outcome \in LoadOutcomes(toke_file) :
         \E loaded \in {InitCrapsGames(load_toke_data(toke_file, outcome))} :
           /\ s_pc' = IF LoadRaises(outcome) THEN "crashed" ELSE "up"
           /\ st' = IF LoadRaises(outcome) THEN EmptyAggregate ELSE loaded
           /\ s_last' = [NoCommand EXCEPT
                           !.kind = "construct", !.load = outcome,
                           !.fresh = (~LoadRaises(outcome) /\ loaded = EmptyAggregate),
                           !.count = s_last.count, !.starts = s_last.starts + 1]
    /\ midi' = NewMidiManager(midi)
    /\ blazes' = <<>>
    /\ UNCHANGED toke_file
    /\ UNCHANGED <<sessionVars, framerVars, pureVars, threadVars>>

\* the process ends (the loop was left, or the process was killed): the
\* memory is gone, the files stay
StopProcess ==
    /\ s_pc \in {"up", "down"}
    /\ s_last.starts < MaxStarts
    /\ s_pc' = "new"
    /\ st' = EmptyAggregate
    /\ midi' = NewMidiManager(midi)
    /\ s_last' = [NoCommand EXCEPT !.kind = "stop", !.count = s_last.count,
                                   !.starts = s_last.starts]
    /\ blazes' = <<>>
    /\ UNCHANGED toke_file
    /\ UNCHANGED <<sessionVars, framerVars, pureVars, threadVars>>

\* What one handler call `eff`, made for the message `text` of `nick`, does
\* to the bot.  The handler's writes to the aggregate come before its sends
\* (after them when sendFirst); the first k sends succeed, a failing send
\* raises; save_toke_data ends in one of SaveOutcomes.
Handled(kind, nick, text, eff, env) ==
    \E k \in 0..Len(eff.writes) :
      \E done \in {~eff.raises /\ (eff.sendFirst => k = Len(eff.writes))} :
        \E outcome \in (IF done /\ eff.saves THEN SaveOutcomes(eff.st) ELSE {"-"}) :
          \E saveRaised \in {outcome # "-" /\ SaveErrorRaises(outcome)} :
            \E sends \in {IF saveRaised /\ ~eff.sendFirst THEN 0 ELSE k} :
              \E raised \in {eff.raises \/ saveRaised \/ sends < Len(eff.writes)} :
                /\ st' = IF done THEN eff.st ELSE st
                /\ midi' = eff.midi
                /\ toke_file' = IF outcome = "-" THEN toke_file
                                ELSE save_toke_data(eff.st, toke_file, outcome)
                /\ s_pc' = IF AfterLine(raised, <<>>) = "disconnect"
                           THEN "down" ELSE "up"
                /\ blazes' = IF eff.verb = "blaze"
                             THEN DictSet(blazes, nick, DictGet(blazes, nick, 0) + 1)
                             ELSE blazes
                /\ s_last' = [kind |-> kind, nick |-> nick,
                              text |-> text, verb |-> eff.verb,
                              sent |-> SubSeq(eff.writes, 1, sends),
                              sendFailed |-> k < Len(eff.writes),
                              raised |-> raised, save |-> outcome,
                              load |-> "-",
                              current_time |-> env.current_time,
                              is_pi_time |-> env.is_pi_time,
                              fresh |-> s_last.fresh,
                              count |-> s_last.count + 1,
                              starts |-> s_last.starts]

\* One iteration of the loop body on a channel message with one of `texts`,
\* at most `max` of them in a run.
Command(texts, max) ==
    /\ s_pc = "up"
    /\ s_last.count < max
    /\ \E nick \in Nicks, text \in texts :
         \E parsed_msg \in {ParseMessage(LineFrom(nick, text))} :
           \E env \in EnvOf(Invocation(parsed_msg.message, command_prefix)) :
             \E eff \in {HandleCommand(parsed_msg, command_prefix, st, midi, env)} :
               Handled("command", nick, text, eff, env)
    /\ UNCHANGED <<sessionVars, framerVars, pureVars, threadVars>>

StateNext(texts, max) == Construct \/ Command(texts, max) \/ StopProcess

\* commands that write the aggregate and the file
SpecState == StateInit(FoundFiles) /\ [][StateNext(PersistTexts, MaxCommands)]_vars

\* the same commands after a start on a state file of the old format
LegacyFile == [kind |-> "oldformat", data |-> [n \in {<<"a">>} |-> 20]]
SpecLegacy == StateInit({LegacyFile}) /\ [][StateNext(PersistTexts, MaxCommands)]_vars

\* commands with bad arguments
SpecErrors == StateInit({[kind |-> "absent"]}) /\ [][StateNext(ErrorTexts, MaxCommands)]_vars

\* the tracker
SpecTracker ==
    StateInit({[kind |-> "absent"]}) /\ [][StateNext(TrackerTexts, MaxBlazes)]_vars

\* the timezone verb
SpecZone == StateInit({[kind |-> "absent"]}) /\ [][StateNext(ZoneTexts, MaxCommands)]_vars

\* the mini-game and statistics verbs
SpecNew == StateInit({[kind |-> "absent"]}) /\ [][StateNext(NewTexts, MaxCommands)]_vars

\* the verbs the t-break reply names, next to blaze and t-break
SpecSilent ==
    StateInit({[kind |-> "absent"]})
    /\ [][StateNext(SilentTexts \cup {T_blaze, T_tbreak}, MaxCommands)]_vars

\* the dice game
SpecCraps ==
    StateInit({[kind |-> "absent"]}) /\ [][StateNext({T_bet5, T_roll}, MaxRolls)]_vars

\* the dice game with all its subcommands
ChipTexts == { T_status, T_bet5, T_roll, T_cashout }
SpecChips == StateInit({[kind |-> "absent"]}) /\ [][StateNext(ChipTexts, MaxRolls)]_vars

\* the dice game with bets of all the chips and of more than that
RecordTexts == { T_betall, T_bet200, T_roll, T_cashout }
SpecRecords ==
    StateInit({[kind |-> "absent"]}) /\ [][StateNext(RecordTexts, MaxRolls)]_vars

\* the digit collection
SpecPi == StateInit({[kind |-> "absent"]}) /\ [][StateNext(PiTexts, MaxPi)]_vars

\* :<nick>!u PRIVMSG b :<text>, a message to the bot's own nickname
PrivateLineFrom(nick, text) ==
    <<":">> \o nick \o <<"!", "u", " ">> \o PRIVMSG \o <<" ">> \o server_nickname
    \o <<" ", ":">> \o text

\* handle_private_command on the whole aggregate (lines 1527-1563)
HandlePrivate(parsed_msg, prefix, a, m) ==
    LET eff == handle_private_command(parsed_msg, prefix, a.user_timezones) IN
    StateEffect(eff.verb, eff.writes, [a EXCEPT !.user_timezones = eff.tz], m,
                eff.saves, eff.raises, FALSE)

\* the PRIVMSG branch of listen() (lines 1666-1673): a target that starts
\* with '#' goes to handle_command, the bot's own nickname to
\* handle_private_command, any other target nowhere
RouteAllToChannelHandler(parsed_msg, prefix, a, m, env) ==
    HandleCommand(parsed_msg, prefix, a, m, env)
Route(parsed_msg, prefix, a, m, env) ==
    IF StartsWith(parsed_msg.target, <<"#">>)
    THEN HandleCommand(parsed_msg, prefix, a, m, env)
    ELSE IF parsed_msg.target = server_nickname
    THEN HandlePrivate(parsed_msg, prefix, a, m)
    ELSE Reply("-", <<>>, a, m)

\* hi
T_hi == <<"h", "i">>

ChannelTexts == { T_zone, T_bet5 }
PrivateTexts == { T_zone, T_showzone, T_nozone, T_bet5, T_pi, T_blaze, T_hi }

\* One iteration of the loop body on a private message with one of `texts`
PrivateCommand(texts, max) ==
    /\ s_pc = "up"
    /\ s_last.count < max
    /\ \E nick \in Nicks, text \in texts :
         \E parsed_msg \in {ParseMessage(PrivateLineFrom(nick, text))} :
           \E env \in {[NoEnv EXCEPT !.is_pi_time = TRUE]} :
             \E eff \in {Route(parsed_msg, command_prefix, st, midi, env)} :
               Handled("private", nick, text, eff, env)
    /\ UNCHANGED <<sessionVars, framerVars, pureVars, threadVars>>

\* channel and private messages
SpecPrivate ==
    StateInit({[kind |-> "absent"]})
    /\ [][StateNext(ChannelTexts, MaxCommands)
          \/ PrivateCommand(PrivateTexts, MaxCommands)]_vars

-----------------------------------------------------------------------------
(* The monitor thread next to the read loop: start_420_monitor (lines      *)
(* 1565-1613) and save_toke_data (lines 123-144), step by step.  Position  *)
(* "-" is the read loop between two handlers, and the monitor not started;  *)
(* "inside" and "raced" are between open() and the end of the with block,  *)
(* "raced" when the other thread was there at the same time.               *)

MaxPoints == 2       \* most points the monitor awards to one identity in a run

Threads == {"main", "monitor"}
Other(t) == IF t = "main" THEN "monitor" ELSE "main"

\* with open(self.toke_file, 'wb') as f: nothing is acquired before the open
\* (line 126)
MayOpenExclusive(t, pcs) == pcs[Other(t)] \notin {"inside", "raced"}
MayOpen(t, pcs) == TRUE

\* if user_nick not in self.active_420_windows   (line 1585)
WindowIsNewAtEveryScan(user_nick, windows) == TRUE
WindowIsNew(user_nick, windows) == user_nick \notin windows

\* self.auto_420_points[user_nick] += 1, after the default of 0 (lines
\* 1587-1589)
AwardPoint(auto_420_points, user_nick) ==
    DictSet(auto_420_points, user_nick, DictGet(auto_420_points, user_nick, 0) + 1)

\* the bot is constructed from an absent state file and is in listen()
MonitorInit ==
    /\ InListen
    /\ FramerIdle
    /\ PureIdle
    /\ s_pc = "up"
    /\ st = EmptyAggregate
    /\ toke_file = [kind |-> "absent"]
    /\ midi = NoMidi
    /\ s_last = NoCommand
    /\ blazes = <<>>

\* start_420_monitor(): the thread is created and started (lines 1611-1612)
StartMonitor ==
    /\ "monitor_420" \notin threads
    /\ threads' = threads \cup {"monitor_420"}
    /\ t_pc' = [t_pc EXCEPT !["monitor"] = "check"]
    /\ UNCHANGED <<active_420_windows, auxVars>>
    /\ UNCHANGED <<sessionVars, framerVars, pureVars, stateVars>>

\* read loop: the handler of '!bud-zone Los Angeles CA' stores the sender's
\* timezone (line 696) and is about to call save_toke_data
HandlerWrites ==
    /\ t_pc["main"] = "-"
    /\ \E nick \in Nicks :
         \E eff \in {HandleCommand(ParseMessage(LineFrom(nick, T_zone)), command_prefix,
                                   st, midi, NoEnv)} :
           st' = eff.st
    /\ t_pc' = [t_pc EXCEPT !["main"] = "save"]
    /\ UNCHANGED <<s_pc, toke_file, midi, s_last, blazes, threads, active_420_windows,
                   auxVars>>
    /\ UNCHANGED <<sessionVars, framerVars, pureVars>>

\* monitor: it is 4:20 for a user with a timezone and no open window: the
\* point is added, the window opened (lines 1583-1590), save_toke_data is next
MonitorAwards ==
    /\ t_pc["monitor"] = "check"
    /\ \E nick \in DOMAIN st.user_timezones :
         /\ WindowIsNew(nick, active_420_windows)
         /\ DictGet(st.auto_420_points, nick, 0) < MaxPoints
         /\ st' = [st EXCEPT !.auto_420_points = AwardPoint(@, nick)]
         /\ active_420_windows' = active_420_windows \cup {nick}
    /\ t_pc' = [t_pc EXCEPT !["monitor"] = "save"]
    /\ UNCHANGED <<s_pc, toke_file, midi, s_last, blazes, threads, auxVars>>
    /\ UNCHANGED <<sessionVars, framerVars, pureVars>>

\* monitor: it is not 4:20 for a user with an open window (lines 1596-1599)
MonitorClearsWindow ==
    /\ t_pc["monitor"] = "check"
    /\ \E nick \in DOMAIN st.user_timezones \cap active_420_windows :
         active_420_windows' = active_420_windows \ {nick}
    /\ UNCHANGED <<threads, t_pc, auxVars>>
    /\ UNCHANGED <<sessionVars, framerVars, pureVars, stateVars>>

\* save_toke_data, line 126: open(..., 'wb') empties the file
OpenFile(t) ==
    /\ t_pc[t] = "save"
    /\ MayOpen(t, t_pc)
    /\ toke_file' = [kind |-> "empty"]
    /\ t_pc' = IF t_pc[Other(t)] \in {"inside", "raced"}
               THEN [t_pc EXCEPT ![t] = "raced", ![Other(t)] = "raced"]
               ELSE [t_pc EXCEPT ![t] = "inside"]
    /\ UNCHANGED <<s_pc, st, midi, s_last, blazes, threads, active_420_windows, auxVars>>
    /\ UNCHANGED <<sessionVars, framerVars, pureVars>>

\* save_toke_data, lines 127-142: the dict refers to the live mappings, so
\* pickle.dump writes the aggregate as it is at that moment; the file is
\* closed.  When the other thread had the same file open for writing in the
\* meantime, the bytes of the two may also end up mixed.
DumpAndClose(t) ==
    /\ t_pc[t] \in {"inside", "raced"}
    /\ toke_file' \in {[kind |-> "pickle", data |-> Data(st)]}
                      \cup (IF t_pc[t] = "raced" THEN {[kind |-> "corrupt"]} ELSE {})
    /\ t_pc' = [t_pc EXCEPT ![t] = "send"]
    /\ UNCHANGED <<s_pc, st, midi, s_last, blazes, threads, active_420_windows, auxVars>>
    /\ UNCHANGED <<sessionVars, framerVars, pureVars>>

\* the sends after the save (lines 698, 1593-1595); then the read loop takes
\* its next line, the monitor its next user
SendsDone(t) ==
    /\ t_pc[t] = "send"
    /\ t_pc' = [t_pc EXCEPT ![t] = IF t = "main" THEN "-" ELSE "check"]
    /\ UNCHANGED <<threads, active_420_windows, auxVars>>
    /\ UNCHANGED <<sessionVars, framerVars, pureVars, stateVars>>

MonitorNext ==
    \/ StartMonitor
    \/ HandlerWrites
    \/ MonitorAwards
    \/ MonitorClearsWindow
    \/ \E t \in Threads : OpenFile(t)
    \/ \E t \in Threads : DumpAndClose(t)
    \/ \E t \in Threads : SendsDone(t)

\* the read loop and the monitor thread
SpecMonitor == MonitorInit /\ [][MonitorNext]_vars

-----------------------------------------------------------------------------
(* Window runs: the monitor thread scans the users, who all have set a       *)
(* timezone, while the wall clock enters and leaves the minute 4:20 (AM or   *)
(* PM) of each identity's timezone.                                          *)
(* clock_420[nick] holds whether it is 4:20 for nick now, which 4:20 it is,  *)
(* and as history the number of such minutes so far, the scans of nick       *)
(* inside the present minute, the points awarded to nick in it and the lines *)
(* sent about nick in it.                                                    *)

MaxMinutes == 2      \* most 4:20 minutes, of all identities, in a window run
MaxScans == 2        \* most scans of one identity inside one 4:20 minute

Outside420 ==
    [is_420 |-> FALSE, period |-> "AM", minutes |-> 0, scans |-> 0, awards |-> 0,
     sent |-> <<>>]

\* the aggregate after '!bud-zone Los Angeles CA' of every identity
ZonesSet ==
    [EmptyAggregate EXCEPT !.user_timezones = [nick \in Nicks |-> "America/Los_Angeles"]]

WindowInit ==
    /\ InListenWith([nick \in Nicks |-> Outside420], NoPlayer)
    /\ FramerIdle
    /\ PureIdle
    /\ s_pc = "up"
    /\ st = ZonesSet
    /\ toke_file = [kind |-> "pickle", data |-> Data(ZonesSet)]
    /\ midi = NoMidi
    /\ s_last = NoCommand
    /\ blazes = <<>>

\* the 4:20 minutes that have begun so far
RECURSIVE MinutesOf(_, _)
MinutesOf(clock, nicks) ==
    IF nicks = {} THEN 0
    ELSE LET nick == CHOOSE n \in nicks : TRUE
         IN  clock[nick].minutes + MinutesOf(clock, nicks \ {nick})

\* the wall clock reaches 4:20 AM or PM in the timezone of nick
MinuteBegins ==
    /\ MinutesOf(clock_420, Nicks) < MaxMinutes
    /\ \E nick \in Nicks, period \in {"AM", "PM"} :
         /\ ~clock_420[nick].is_420
         /\ clock_420' = [clock_420 EXCEPT ![nick] =
                             [is_420 |-> TRUE, period |-> period, minutes |-> @.minutes + 1,
                              scans |-> 0, awards |-> 0, sent |-> <<>>]]
    /\ UNCHANGED <<threads, t_pc, active_420_windows, midi_player>>
    /\ UNCHANGED <<sessionVars, framerVars, pureVars, stateVars>>

\* the wall clock reaches 4:21
MinuteEnds ==
    /\ \E nick \in Nicks :
         /\ clock_420[nick].is_420
         /\ clock_420' = [clock_420 EXCEPT ![nick].is_420 = FALSE]
    /\ UNCHANGED <<threads, t_pc, active_420_windows, midi_player>>
    /\ UNCHANGED <<sessionVars, framerVars, pureVars, stateVars>>

\* the lines of lines 1593-1595, one for each configured channel
Announcements(user_nick, period) ==
    [i \in 1..Len(channels) |->
        ChatLine(channels[i], <<"<its-420>", period>> \o user_nick)]

\* check_420_times, one pass of the for loop of line 1573 (lines 1574-1602):
\* the point, the window, save_toke_data and the announcements, of which the
\* first k sends succeed (a failing send raises into the except of line
\* 1601); or the window cleared
ScanUser ==
    /\ "monitor_420" \in threads
    /\ s_pc = "up"
    /\ \E user_nick \in DOMAIN st.user_timezones :
         LET now == clock_420[user_nick] IN
         IF now.is_420
         THEN /\ now.scans < MaxScans
              /\ IF WindowIsNew(user_nick, active_420_windows)
                 THEN \E awarded \in {[st EXCEPT !.auto_420_points =
                                                    AwardPoint(@, user_nick)]} :
                        \E outcome \in SaveOutcomes(awarded),
                           k \in 0..Len(channels) :
                          /\ st' = awarded
                          /\ active_420_windows' = active_420_windows \cup {user_nick}
                          /\ toke_file' = save_toke_data(awarded, toke_file, outcome)
                          /\ clock_420' = [clock_420 EXCEPT
                                              ![user_nick].scans = @ + 1,
                                              ![user_nick].awards = @ + 1,
                                              ![user_nick].sent =
                                                  @ \o Sent(Announcements(user_nick,
                                                                          now.period), k)]
                 ELSE /\ clock_420' = [clock_420 EXCEPT ![user_nick].scans = @ + 1]
                      /\ UNCHANGED <<st, active_420_windows, toke_file>>
         ELSE /\ active_420_windows' = active_420_windows \ {user_nick}
              /\ UNCHANGED <<st, toke_file, clock_420>>
    /\ UNCHANGED sessionVars
    /\ UNCHANGED <<s_pc, midi, s_last, blazes, threads, t_pc, midi_player>>
    /\ UNCHANGED <<framerVars, pureVars>>

WindowNext ==
    \/ StartMonitor
    \/ MinuteBegins
    \/ MinuteEnds
    \/ ScanUser

\* the monitor thread and the wall clock
SpecWindow == WindowInit /\ [][WindowNext]_vars

-----------------------------------------------------------------------------
(* Player runs: SimpleMidiPlayer under the handlers of '!midi play' and      *)
(* '!midi stop' (midi_player.py 149-211, ircbot.py 1292-1308).               *)
(* midi_player.playing is self.playing; play_thread is the index in workers  *)
(* of the thread self.play_thread refers to (0 is None); a worker is at      *)
(* "loop" (the test of line 185), "wait" (the sleep of line 192 and the log  *)
(* of line 197), "finally" (line 204) or "done"; `next` is the index of its  *)
(* next event and `notes` the number of notes it has logged; stop_at is      *)
(* "join" while the read loop is inside play_thread.join(timeout=1); `did`   *)
(* is history: who took the last step (0 is the read loop) and what it was.  *)

MaxPlays == 2        \* most playbacks started in a player run

\* the sorted events of a composition of two notes, one after the other
\* (lines 171-180)
Events == <<"on", "off", "on", "off">>

PlayerInit ==
    /\ InListen
    /\ FramerIdle
    /\ PureIdle
    /\ s_pc = "up"
    /\ st = EmptyAggregate
    /\ toke_file = [kind |-> "absent"]
    /\ midi = NoMidi
    /\ s_last = NoCommand
    /\ blazes = <<>>

PlayerStep(next_player) ==
    /\ midi_player' = next_player
    /\ UNCHANGED <<threads, t_pc, active_420_windows, clock_420>>
    /\ UNCHANGED <<sessionVars, framerVars, pureVars, stateVars>>

\* if self.playing: ... return False   (line 155)
Refused(playing) == playing

\* '!midi play' of a composition with notes: play_composition (lines
\* 153-166) refuses, or sets the flag and starts a worker
Play ==
    /\ midi_player.stop_at = "-"
    /\ IF Refused(midi_player.playing)
       THEN PlayerStep([midi_player EXCEPT !.did = [actor |-> 0, op |-> "refused"]])
       ELSE /\ Len(midi_player.workers) < MaxPlays
            /\ PlayerStep([midi_player EXCEPT
                             !.playing = TRUE,
                             !.workers = Append(@, [at |-> "loop", next |-> 1, notes |-> 0]),
                             !.play_thread = Len(midi_player.workers) + 1,
                             !.did = [actor |-> 0, op |-> "play"]])

\* _play_worker, line 185: the for loop takes the next event, if any, and
\* tests self.playing
WorkerTests(w) ==
    /\ midi_player.workers[w].at = "loop"
    /\ PlayerStep([midi_player EXCEPT
                     !.workers[w].at =
                         IF midi_player.workers[w].next > Len(Events) THEN "finally"
                         ELSE IF ~midi_player.playing THEN "finally"
                         ELSE "wait",
                     !.did = [actor |-> w, op |-> "test"]])

\* _play_worker, lines 188-198: the sleep until the event's time is over, a
\* note-on event is logged
WorkerEmits(w) ==
    /\ midi_player.workers[w].at = "wait"
    /\ PlayerStep([midi_player EXCEPT
                     !.workers[w] =
                         [at |-> "loop", next |-> @.next + 1,
                          notes |-> @.notes + (IF Events[@.next] = "on" THEN 1 ELSE 0)],
                     !.did = [actor |-> w, op |-> Events[midi_player.workers[w].next]]])

\* _play_worker, lines 203-204: finally: self.playing = False
WorkerEnds(w) ==
    /\ midi_player.workers[w].at = "finally"
    /\ PlayerStep([midi_player EXCEPT
                     !.playing = FALSE,
                     !.workers[w].at = "done",
                     !.did = [actor |-> w, op |-> "finally"]])

\* '!midi stop': stop() clears the flag (line 209) and, when there is a
\* thread, joins it for at most one second (lines 210-211)
StopBegins ==
    /\ midi_player.stop_at = "-"
    /\ PlayerStep([midi_player EXCEPT
                     !.playing = FALSE,
                     !.stop_at = IF midi_player.play_thread # 0 THEN "join" ELSE "-",
                     !.did = [actor |-> 0, op |-> "stop"]])

\* join(timeout=1) returns: the thread has ended, or the second is over
\* while the thread sleeps until its next event
StopReturns ==
    /\ midi_player.stop_at = "join"
    /\ midi_player.workers[midi_player.play_thread].at \in {"done", "wait"}
    /\ PlayerStep([midi_player EXCEPT !.stop_at = "-",
                                      !.did = [actor |-> 0, op |-> "stopped"]])

PlayerNext ==
    \/ Play
    \/ StopBegins
    \/ StopReturns
    \/ \E w \in 1..Len(midi_player.workers) : WorkerTests(w)
    \/ \E w \in 1..Len(midi_player.workers) : WorkerEmits(w)
    \/ \E w \in 1..Len(midi_player.workers) : WorkerEnds(w)

\* the read loop and the playback workers
SpecPlayer == PlayerInit /\ [][PlayerNext]_vars

-----------------------------------------------------------------------------
(* Precision timing: calculate_precision_score applied to bounded inputs.    *)
(* No handler calls it; the runs below call it on the bot's precision_timing *)
(* mapping.  Timestamps are in half hours and above 0, as time.time() is;    *)
(* last_420_time None and best_precision float('inf') are written 0 and      *)
(* Infinity.                                                                *)

MaxCalls == 3        \* most calls of calculate_precision_score in a run

\* stands for float('inf'): more than any seconds_from_420 (at most 30 * 60)
Infinity == 2 * 30 * 60

\* the record of lines 478-484
NewTiming ==
    [last_420_time |-> 0, perfect_cycles |-> 0, total_420s |-> 0,
     best_precision |-> Infinity, cycle_streak |-> 0]

Abs(x) == IF x >= 0 THEN x ELSE 0 - x

\* lines 489-495: the seconds from minute 20, folded at half an hour
SecondsFrom420(user_datetime) ==
    LET seconds_from_420 == Abs((user_datetime.minute - 20) * 60 + user_datetime.second)
    IN  IF seconds_from_420 > 30 * 60 THEN 60 * 60 - seconds_from_420
        ELSE seconds_from_420

\* cycle_multiples = [12, 24, 36, 48]   (line 508)
cycle_multiples == <<12, 24, 36, 48>>

\* abs(hours_since_last - cycle_hours) <= 1   (line 510), with
\* hours_since_last = time_since_last / 3600 and time_since_last in half hours
WithinToleranceStrict(time_since_last, cycle_hours) ==
    Abs(time_since_last - 2 * cycle_hours) < 2
WithinTolerance(time_since_last, cycle_hours) ==
    Abs(time_since_last - 2 * cycle_hours) <= 2

\* calculate_precision_score(nick, user_datetime, current_time) (lines
\* 475-528): the mapping it leaves and the first two values it returns
calculate_precision_score(precision_timing, nick, user_datetime, current_time) ==
    LET timing_data == DictGet(precision_timing, nick, NewTiming)
        seconds_from_420 == SecondsFrom420(user_datetime)
        best_precision ==
            IF seconds_from_420 < timing_data.best_precision
            THEN seconds_from_420 ELSE timing_data.best_precision
        has_last == timing_data.last_420_time # 0
        time_since_last == current_time - timing_data.last_420_time
        is_perfect_cycle ==
            /\ has_last
            /\ \E i \in 1..Len(cycle_multiples) :
                   WithinTolerance(time_since_last, cycle_multiples[i])
        cycle_streak ==
            IF ~has_last THEN 1
            ELSE IF is_perfect_cycle THEN timing_data.cycle_streak + 1
            ELSE 0
    IN  [precision_timing |->
             DictSet(precision_timing, nick,
                     [last_420_time |-> current_time,
                      perfect_cycles |-> timing_data.perfect_cycles
                                         + (IF is_perfect_cycle THEN 1 ELSE 0),
                      total_420s |-> timing_data.total_420s + 1,
                      best_precision |-> best_precision,
                      cycle_streak |-> cycle_streak]),
         seconds_from_420 |-> seconds_from_420,
         is_perfect_cycle |-> is_perfect_cycle]

\* the call times, in half hours: from the first, the later ones are 10.5,
\* 11, 12, 13, 13.5, 24 and 49 hours away, and from one another 0.5 to 38.5
\* hours
PrecisionClock == {2, 23, 24, 26, 28, 29, 50, 100}

\* user_datetime: 4:20:00, 4:19:59, and 4:51:00, which is 29 minutes before
\* the next minute 20
UserDatetimes ==
    { [minute |-> 20, second |-> 0], [minute |-> 19, second |-> 59],
      [minute |-> 51, second |-> 0] }

PrecisionInit ==
    /\ InListen
    /\ FramerIdle
    /\ StateIdle
    /\ p_line = <<>>
    /\ p_prefix = <<>>
    /\ p_out = [done |-> FALSE, calls |-> 0]

PrecisionCall ==
    /\ p_out.calls < MaxCalls
    /\ \E nick \in Nicks, user_datetime \in UserDatetimes, current_time \in PrecisionClock :
         \E r \in {calculate_precision_score(st.precision_timing, nick, user_datetime,
                                             current_time)} :
           /\ st' = [st EXCEPT !.precision_timing = r.precision_timing]
           /\ p_out' = [done |-> TRUE, calls |-> p_out.calls + 1, nick |-> nick,
                        current_time |-> current_time,
                        seconds_from_420 |-> r.seconds_from_420,
                        is_perfect_cycle |-> r.is_perfect_cycle]
    /\ UNCHANGED <<s_pc, toke_file, midi, s_last, blazes>>
    /\ UNCHANGED <<sessionVars, framerVars, p_line, p_prefix, threadVars>>

SpecPrecision == PrecisionInit /\ [][PrecisionCall]_vars

-----------------------------------------------------------------------------
(* Claims on the line framer *)

\* C1 (as claimed): when the read loop has consumed the stream, the lines it
\* handed to per-line processing, and the tail left in the buffer, are those
\* of the same stream arriving in a single chunk, however recv cut it.
C1_FramingIdempotence ==
    pc = "disconnect" =>
        /\ handed = WholeStream.lines
        /\ buffer = WholeStream.buffer

\* C1, the case: a stream with a complete line has been read in more than one chunk
C1_Witness ==
    /\ pc = "disconnect"
    /\ rest = <<>>
    /\ handed # <<>>
    /\ Len(stream) > MaxChunk

-----------------------------------------------------------------------------
(* Claims on the parser and the router *)

\* the space-delimited fields of a line
Fields(line) == Split(line, <<" ">>, -1)

\* the text after the first n fields, "" when there is none
RestAfter(line, n) ==
    LET parts == Split(line, <<" ">>, n) IN
    IF Len(parts) > n THEN parts[n + 1] ELSE <<>>

\* C3: parse_message raises on no line; on a line with fewer than three
\* space-delimited fields it returns None, and the read loop, having parsed
\* such a line, writes nothing, changes no state and goes on with the loop.
\* (A line that begins with PING is answered before the parser is reached.)
C3_ParserTotality ==
    p_out.done =>
        /\ p_out.parsed.kind # "raise"
        /\ Len(Fields(p_line)) < 3 =>
             /\ p_out.parsed = NotAMessage
             /\ p_out.eff.route # "ping" =>
                  /\ p_out.eff.route = "notmsg"
                  /\ p_out.eff.writes = <<>>
                  /\ p_out.eff.tz = user_timezones
                  /\ ~p_out.eff.saves
                  /\ ~p_out.eff.raises
                  /\ p_out.next = "listen"

\* C3, the case: a two-field line has gone through the loop body
C3_Witness ==
    /\ p_out.done
    /\ Len(Fields(p_line)) = 2
    /\ p_out.eff.route = "notmsg"

\* C4 (as claimed): for a line of three fields or more the verb is the field
\* after the ':'-prefixed source when there is one and the first field when
\* there is none, the target is the field after the verb, and the trailing
\* text is the rest of the line without its leading ':'.
C4_OptionalPrefix ==
    (p_out.done /\ Len(Fields(p_line)) >= 3) =>
        LET fields == Fields(p_line)
            shift == IF StartsWith(p_line, <<":">>) THEN 1 ELSE 0
            trailing == RestAfter(p_line, 2 + shift)
        IN  /\ p_out.parsed.kind = "msg"
            /\ p_out.parsed.command = fields[1 + shift]
            /\ p_out.parsed.target = fields[2 + shift]
            /\ StartsWith(trailing, <<":">>) =>
                   p_out.parsed.message = DropN(trailing, 1)

\* C4, the case: a line of three fields with no source prefix has been parsed
C4_Witness ==
    /\ p_out.done
    /\ p_line = L_noprefix
    /\ p_out.parsed.kind = "msg"

\* C10 (as claimed): text that does not start with the configured prefix is
\* ignored; text that starts with it is dispatched on the first token after
\* the whole prefix, case-folded, the other tokens being the arguments.
C10_PrefixTokenization ==
    p_out.done =>
        LET tokens == SplitWS(DropN(p_line, Len(p_prefix))) IN
        /\ ~StartsWith(p_line, p_prefix) =>
               /\ p_out.inv.kind = "unprefixed"
               /\ p_out.eff.writes = <<>> /\ ~p_out.eff.raises
        /\ (StartsWith(p_line, p_prefix) /\ tokens # <<>>) =>
               /\ p_out.inv.kind = "cmd"
               /\ p_out.inv.command = Lower(tokens[1])
               /\ p_out.inv.args = Tail(tokens)

\* C10, the case: a text with a verb after a two-character prefix has been routed
C10_Witness ==
    /\ p_out.done
    /\ Len(p_prefix) = 2
    /\ StartsWith(p_line, p_prefix)
    /\ SplitWS(DropN(p_line, Len(p_prefix))) # <<>>

-----------------------------------------------------------------------------
(* Claims on the session *)

\* the line the loop body is about to process
CurrentLine == Head(pending)

\* the messages written by the step
Written == SubSeq(wire', Len(wire) + 1, Len(wire'))

\* the step leaves the bot's state, other than the transport, as it is
StateKept ==
    /\ user_timezones' = user_timezones
    /\ saved' = saved
    /\ nickserv_registered' = nickserv_registered
    /\ welcomed' = welcomed

\* the loop is left for good
LoopLeft == pc \in {"disconnect", "finally", "exited"}

\* C2: a line that begins with PING is answered, in the step that takes it
\* from the chunk's lines, by the same line with its leading PING replaced by
\* PONG, unless the send fails (which ends the loop); the step takes the PING
\* branch only, so neither the parser nor the router acts and no state changes.
C2_KeepAlive ==
    [][ (pc = "lines" /\ StartsWith(CurrentLine, <<"P", "I", "N", "G">>)) =>
          /\ last'.route = "ping"
          /\ StateKept
          /\ pending' = Tail(pending)
          /\ \/ /\ ~last'.raised
                /\ Written = << <<"P", "O", "N", "G">> \o DropN(CurrentLine, 4)
                                \o <<"CR", "LF">> >>
                /\ pc' \in {"listen", "lines"}
             \/ /\ last'.raised
                /\ Written = <<>>
                /\ pc' = "disconnect" ]_vars

\* C2, the case: 'PING :s' has been answered by 'PONG :s', and then a PING
\* line whose remainder reads as a command has been answered as well
C2_Witness ==
    /\ last.route = "ping"
    /\ ~last.raised
    /\ Len(wire) >= 2
    /\ wire[Len(wire) - 1] = <<"P", "O", "N", "G", " ", ":", "s", "CR", "LF">>
    /\ wire[Len(wire)] = <<"P", "O", "N", "G">> \o DropN(L_pingcmd, 4) \o CRLF
    /\ user_timezones = <<>>

IsJoin(m) == StartsWith(m, <<"J", "O", "I", "N", " ">>)

ExpectedJoins ==
    [i \in 1..Len(channels) |-> <<"J", "O", "I", "N", " ">> \o channels[i] \o <<"CR", "LF">>]

IsWelcomeLine(line) ==
    /\ ~StartsWith(line, <<"P", "I", "N", "G">>)
    /\ Len(Fields(line)) >= 3
    /\ Fields(line)[2] = <<"0", "0", "1">>

\* C5: a JOIN is on the wire only after a line with verb 001 has been
\* processed; the step that processes such a line writes the JOINs of the
\* configured channels in the listed order, all of them unless a send fails,
\* and no other step writes a JOIN.
C5_JoinOrdering ==
    [][ /\ (\E i \in 1..Len(wire') : IsJoin(wire'[i])) => welcomed'
        /\ LET joins == SelectSeq(Written, IsJoin) IN
           IF pc = "lines" /\ IsWelcomeLine(CurrentLine)
           THEN /\ welcomed'
                /\ joins = SubSeq(ExpectedJoins, 1, Len(joins))
                /\ ~last'.raised => joins = ExpectedJoins
                /\ \A i \in 1..Len(Written) :
                     IsJoin(Written[i]) => \A j \in i..Len(Written) : IsJoin(Written[j])
           ELSE joins = <<>> ]_vars

\* C5, the case: after a welcome both channels have been joined, in order
C5_Witness ==
    /\ welcomed
    /\ last.route = "welcome"
    /\ Len(wire) >= 2
    /\ wire[Len(wire) - 1] = <<"J", "O", "I", "N", " ", "#", "c", "CR", "LF">>
    /\ wire[Len(wire)] = <<"J", "O", "I", "N", " ", "#", "d", "CR", "LF">>

\* C6: whatever has been written starts with 'NICK <nick>' CRLF and then
\* 'USER <user> 0 * :<realname>' CRLF; a session that is past connect() has
\* written both; when the transport was not opened nothing is written and
\* the connected flag is false.
C6_Registration ==
    /\ Len(wire) >= 1 => wire[1] = <<"N", "I", "C", "K", " ">> \o server_nickname \o CRLF
    /\ Len(wire) >= 2 =>
           wire[2] = <<"U", "S", "E", "R", " ">> \o username
                     \o <<" ", "0", " ", "*", " ", ":">> \o realname \o CRLF
    /\ pc \notin {"start", "failed"} => Len(wire) >= 2
    /\ sock \in {"none", "unconnected"} => (wire = <<>> /\ ~connected)

\* C6, the case: connect() has succeeded and the two lines are on the wire
C6_Witness ==
    /\ pc = "listen"
    /\ sock = "open"
    /\ Len(wire) = 2

\* C6, the other case: opening the transport has failed
C6_WitnessRefused ==
    /\ pc = "failed"
    /\ sock = "unconnected"

\* C7 (as claimed): once the read loop has been left and disconnect() is over,
\* the farewell line is on the wire, the socket is closed and the connected
\* flag is false.
C7_OrderlyTeardown ==
    pc \in {"finally", "exited"} =>
        /\ \E i \in 1..Len(wire) : wire[i] = QuitLine \o CRLF
        /\ sock = "closed"
        /\ ~connected

\* C7, the case: the loop was left on end-of-stream and disconnect() is over
C7_Witness ==
    /\ pc = "exited"
    /\ last.route = "eof"

\* C8: a step of the loop body that raises leads to disconnect(), and once
\* the loop is left no line is taken from the chunk's lines, nothing is
\* received and no state of the bot changes.
C8_BadLineEndsSession ==
    [][ /\ (pc = "lines" /\ last'.raised) => pc' = "disconnect"
        /\ LoopLeft =>
             /\ pc' \in {"finally", "exited"}
             /\ pending' = pending
             /\ received' = received
             /\ StateKept ]_vars

\* C8, the case: a handler has raised while a later line of the same chunk
\* was waiting, and the session has gone through disconnect()
C8_Witness ==
    /\ pc = "exited"
    /\ last.route = "channel"
    /\ last.raised
    /\ pending # <<>>
    /\ sock = "closed"

\* the line is a prefixed chat message with a verb the handler has no branch for
UnknownVerbIn(line, private) ==
    LET parsed_msg == ParseMessage(line)
        inv == Invocation(parsed_msg.message, command_prefix)
    IN  /\ ~StartsWith(line, <<"P", "I", "N", "G">>)
        /\ parsed_msg.kind = "msg"
        /\ parsed_msg.command = PRIVMSG
        /\ inv.kind = "cmd"
        /\ IF private
           THEN parsed_msg.target = server_nickname /\ inv.command \notin PrivateVerbs
           ELSE StartsWith(parsed_msg.target, <<"#">>) /\ inv.command \notin ChannelVerbs

\* C9 (as claimed): a channel message or a private message with an unknown
\* verb causes no reply and no state change.
C9_UnknownSilent ==
    [][ (pc = "lines" /\ (UnknownVerbIn(CurrentLine, FALSE) \/ UnknownVerbIn(CurrentLine, TRUE)))
          => (Written = <<>> /\ StateKept) ]_vars

\* C9 (amended): a channel message with an unknown verb causes no reply and no
\* state change; a private message with a verb other than bud-zone changes no
\* state and is answered by one notice to its sender (unless the send fails).
C9_UnknownSilentInChannel ==
    [][ pc = "lines" =>
          /\ UnknownVerbIn(CurrentLine, FALSE) =>
               (Written = <<>> /\ StateKept /\ ~last'.raised)
          /\ UnknownVerbIn(CurrentLine, TRUE) =>
               /\ StateKept
               /\ \/ ~last'.raised
                     /\ Written = << PRIVMSG \o <<" ">> \o ParseMessage(CurrentLine).nick
                                     \o <<" ", ":", "<only-bud-zone>", "CR", "LF">> >>
                  \/ last'.raised /\ Written = <<>> ]_vars

\* C9, the case: an unknown verb in a channel was ignored after an unknown
\* verb in a private message had been answered
C9_Witness ==
    /\ last.route = "channel"
    /\ last.verb = "unknown"
    /\ \E i \in 1..Len(wire) :
         wire[i] = <<"P", "R", "I", "V", "M", "S", "G", " ", "a", " ", ":",
                     "<only-bud-zone>", "CR", "LF">>

-----------------------------------------------------------------------------
(* Claims on the persisted aggregate *)

\* C11 (as claimed): a command that changes the aggregate in memory writes
\* the whole aggregate to the state file before the next line is processed:
\* when its write succeeds (or none fails), the file then holds exactly the
\* aggregate in memory.
C11_WriteThrough ==
    [][ (s_last'.kind = "command" /\ s_pc' = "up" /\ st' # st
         /\ s_last'.save \in {"-", "ok"})
          => /\ s_last'.save = "ok"
             /\ toke_file'.kind = "pickle"
             /\ toke_file'.data = Data(st') ]_vars

\* C11, the case: a craps command of an identity without a record has stored
\* the record in memory and has not called save_toke_data; the file does
\* not hold the record
C11_Witness ==
    /\ s_last.kind = "command"
    /\ s_last.verb = "craps"
    /\ s_last.save = "-"
    /\ ~s_last.raised
    /\ s_last.nick \in DOMAIN st.craps_games
    /\ \/ toke_file.kind # "pickle"
       \/ s_last.nick \notin DOMAIN toke_file.data.craps_games

\* C12 (as claimed): constructing the bot on a state file that is absent,
\* empty, cut short or no pickle at all succeeds and leaves the empty
\* aggregate.
C12_StartupTolerant ==
    [][ (s_last'.kind = "construct"
         /\ toke_file.kind \in {"absent", "empty", "truncated", "corrupt"})
          => (s_pc' = "up" /\ st' = EmptyAggregate) ]_vars

\* C12, the case: the bot was constructed on a damaged state file and
\* pickle.load has raised UnpicklingError out of the constructor
C12_Witness ==
    /\ s_last.kind = "construct"
    /\ toke_file.kind \in {"truncated", "corrupt"}
    /\ s_last.load = "UnpicklingError"
    /\ s_pc = "crashed"

\* C13 (as claimed): the bot constructed on a state file that a save has
\* written uses an aggregate equal to the saved one in every sub-mapping,
\* the dice-game records among them.
C13_RoundTrip ==
    [][ (s_last'.kind = "construct" /\ toke_file.kind = "pickle")
          => /\ s_pc' = "up"
             /\ \A field \in DOMAIN toke_file.data :
                  Data(st')[field] = toke_file.data[field] ]_vars

\* C13, the case: the process has stopped after a save that wrote a dice-game
\* record, and the bot constructed again has no dice-game record
C13_Witness ==
    /\ s_last.kind = "construct"
    /\ s_pc = "up"
    /\ toke_file.kind = "pickle"
    /\ toke_file.data.craps_games # <<>>
    /\ st.craps_games = <<>>
    /\ st.toke_data = toke_file.data.timestamps

\* the write to the aggregate that the command of the step has made for
\* `nick` is in the aggregate after the step
MutationRetained(nick, verb) ==
    CASE verb = "blaze" ->
           /\ DictGet(st'.toke_counts, nick, 0) = DictGet(st.toke_counts, nick, 0) + 1
           /\ DictGet(st'.toke_data, nick, 0 - 1) = s_last'.current_time
      [] verb = "pi" ->
           DictGet(st'.pi_progress, nick, 0) = DictGet(st.pi_progress, nick, 0) + 60
      [] verb = "time" -> st'.time_format_mode = 1 - st.time_format_mode
      [] verb = "craps" ->
           /\ nick \in DOMAIN st'.craps_games
           /\ nick \in DOMAIN st.craps_games => st'.craps_games[nick] # st.craps_games[nick]
      [] verb = "bud-zone" -> DictGet(st'.user_timezones, nick, "None") = "America/Los_Angeles"
      [] OTHER -> FALSE

\* C14: when a command's write of the state file fails, nothing is raised by
\* the failure (a step raises only when a send fails), and unless a send
\* fails the session stays in the loop, every reply of the command is
\* emitted, and the command's write to the aggregate stays in memory.
C14_SaveErrorsSwallowed ==
    [][ (s_last'.kind = "command" /\ s_last'.save \notin {"-", "ok"})
          => /\ s_last'.raised => s_last'.sendFailed
             /\ MutationRetained(s_last'.nick, s_last'.verb)
             /\ ~s_last'.sendFailed =>
                  /\ s_pc' = "up"
                  /\ s_last'.sent # <<>> ]_vars

\* C14, the case: a blaze command whose save failed after emptying the file
\* has counted, has replied and has left the session in the loop
C14_Witness ==
    /\ s_last.kind = "command"
    /\ s_last.verb = "blaze"
    /\ s_last.save = "emptied"
    /\ toke_file.kind = "empty"
    /\ ~s_last.raised
    /\ s_last.sent # <<>>
    /\ s_pc = "up"
    /\ s_last.nick \in DOMAIN st.toke_counts

-----------------------------------------------------------------------------
(* Claims on the command handlers *)

\* the command `text` of `nick` is a user error in the aggregate `a`: a
\* number that is none, a missing argument, a location no key matches, a bet
\* below 1 or above the chips, or a bet while one is active
UserError(nick, text, a) ==
    \/ text \in {T_betx, T_betnone, T_bet0, T_bet200, T_nozone, T_tempox, T_temponone,
                 T_addx, T_addfew}
    \/ /\ text = T_bet5
       /\ nick \in DOMAIN a.craps_games
       /\ a.craps_games[nick].bet > 0

\* C15 (as claimed): a command that is a user error is answered by exactly
\* one reply line (unless the send fails), raises nothing by itself, and
\* leaves the whole aggregate as it was, whoever sends it.
C15_UserErrors ==
    [][ (s_last'.kind = "command" /\ UserError(s_last'.nick, s_last'.text, st))
          => /\ s_last'.raised => s_last'.sendFailed
             /\ ~s_last'.sendFailed => Len(s_last'.sent) = 1
             /\ st' = st ]_vars

\* C15, the case: a bet that is no number, from an identity that had no
\* dice-game record, was answered by the one line "invalid bet" and has left
\* a record of that identity in the aggregate
C15_Witness ==
    /\ s_last.kind = "command"
    /\ s_last.text = T_betx
    /\ s_last.count = 1
    /\ ~s_last.raised
    /\ s_last.sent = <<ChatLine(<<"#", "c">>, <<"<craps-invalid-bet>">> \o s_last.nick)>>
    /\ st.craps_games = [n \in {s_last.nick} |-> NewPlayer]

-----------------------------------------------------------------------------
(* Claims on the tracker *)

\* C16: in a process started on the empty aggregate, the stored action
\* counter of every identity equals the number of tracker invocations that
\* identity has made, whatever other commands came in between.
C16_CounterAccumulation ==
    (s_pc \in {"up", "down"} /\ s_last.fresh) =>
        \A nick \in Nicks : DictGet(st.toke_counts, nick, 0) = DictGet(blazes, nick, 0)

\* C16, the case: one identity has invoked the tracker twice, and a command of
\* the other identity was the last of three
C16_Witness ==
    /\ s_last.fresh
    /\ s_last.kind = "command"
    /\ s_last.count = 3
    /\ s_last.nick = <<"z">>
    /\ DictGet(blazes, <<"a">>, 0) = 2
    /\ DictGet(st.toke_counts, <<"a">>, 0) = 2

\* the whole seconds between two clock values in half seconds, as int() of
\* their difference gives them
GapSeconds(now, before) ==
    IF now >= before THEN (now - before) \div 2 ELSE 0 - ((before - now) \div 2)

\* C17: the stored longest gap of no identity decreases in any command of
\* any identity; a tracker invocation of an identity with a last-action
\* timestamp stores the new gap exactly when the gap exceeds the stored
\* value, and keeps the stored value otherwise.
C17_LongestGapMonotonic ==
    [][ s_last'.kind = "command" =>
          /\ \A nick \in DOMAIN st.longest_abstinence :
               /\ nick \in DOMAIN st'.longest_abstinence
               /\ st'.longest_abstinence[nick] >= st.longest_abstinence[nick]
          /\ (s_last'.verb = "blaze" /\ s_last'.nick \in DOMAIN st.toke_data
              /\ s_last'.nick \in DOMAIN st.longest_abstinence) =>
               LET gap == GapSeconds(s_last'.current_time, st.toke_data[s_last'.nick])
                   stored == st.longest_abstinence[s_last'.nick]
               IN  st'.longest_abstinence[s_last'.nick] =
                       IF gap > stored THEN gap ELSE stored ]_vars

\* C17, the case: an identity's second tracker invocation has stored a gap of
\* 5 seconds, and its third, at the same clock value, has left the 5 seconds
C17_Witness ==
    /\ s_last.kind = "command"
    /\ s_last.verb = "blaze"
    /\ s_last.nick \in DOMAIN st.toke_history
    /\ st.toke_history[s_last.nick] = <<20, 30, 30>>
    /\ st.longest_abstinence[s_last.nick] = 5

-----------------------------------------------------------------------------
(* Claims on the timezone verb *)

\* the location string of a command text "!bud-zone <location>"
LocationOf(text) == DropN(text, 10)

\* the command of the step has resolved its location to `tz`: the identifier
\* is stored for the invoking identity, save_toke_data is called and a
\* successful save leaves the identifier in the file, and the reply (unless
\* the send fails) confirms the location and the identifier
ZoneSet(tz) ==
    /\ st'.user_timezones = DictSet(st.user_timezones, s_last'.nick, tz)
    /\ s_last'.save # "-"
    /\ s_last'.save = "ok" =>
         /\ toke_file'.kind = "pickle"
         /\ DictGet(toke_file'.data.user_timezones, s_last'.nick, "None") = tz
    /\ ~s_last'.sendFailed =>
         s_last'.sent = <<ChatLine(<<"#", "c">>,
                                   s_last'.nick \o <<"<zone-set>">>
                                   \o LocationOf(s_last'.text) \o <<tz>>)>>

\* C18: a location that is a key of the table resolves to that key's
\* identifier although an earlier key contains it ("ca" is a key and is inside
\* "chicago"); the tokens Los Angeles CA, no key as a whole, resolve by
\* containment to America/Los_Angeles; a resolved identifier is stored for the
\* invoking identity, saved and confirmed by the reply.
C18_TimezoneLookup ==
    [][ (s_last'.kind = "command" /\ s_last'.text \in {T_zone, T_ca})
          => ZoneSet("America/Los_Angeles") ]_vars

\* C18, the case: Los Angeles CA was resolved, stored, written to the file
\* and confirmed
C18_Witness ==
    /\ s_last.kind = "command"
    /\ s_last.text = T_zone
    /\ s_last.save = "ok"
    /\ ~s_last.raised
    /\ Len(s_last.sent) = 1
    /\ st.user_timezones[s_last.nick] = "America/Los_Angeles"
    /\ toke_file.kind = "pickle"
    /\ toke_file.data.user_timezones[s_last.nick] = "America/Los_Angeles"

\* C19 (as claimed): the location Nowhereville resolves to "not found": the
\* timezone-set verb stores and saves nothing, leaves the timezones stored as
\* they were and answers with the failure reply.
C19_UnknownLocation ==
    [][ (s_last'.kind = "command" /\ s_last'.text = T_nowhere)
          => /\ st'.user_timezones = st.user_timezones
             /\ s_last'.save = "-"
             /\ ~s_last'.sendFailed =>
                  s_last'.sent = <<ChatLine(<<"#", "c">>,
                                            s_last'.nick \o <<"<zone-not-found>">>
                                            \o LocationOf(s_last'.text))>> ]_vars

\* C19, the case: an identity whose saved timezone is America/Los_Angeles
\* has sent Nowhereville; the reply confirms America/Chicago, which is now
\* the identity's timezone in memory (the save of this command did not
\* reach the file)
C19_Witness ==
    /\ s_last.kind = "command"
    /\ s_last.text = T_nowhere
    /\ s_last.save = "open-failed"
    /\ toke_file.kind = "pickle"
    /\ DictGet(toke_file.data.user_timezones, s_last.nick, "None") = "America/Los_Angeles"
    /\ DictGet(st.user_timezones, s_last.nick, "None") = "America/Chicago"
    /\ s_last.sent = <<ChatLine(<<"#", "c">>,
                                s_last.nick \o <<"<zone-set>">> \o LocationOf(T_nowhere)
                                \o <<"America/Chicago">>)>>

-----------------------------------------------------------------------------
(* Claims on the digit collection *)

\* C20: an invocation of the pi verb inside its time window adds exactly 60
\* to the progress of the invoking identity, and adds one to its rounds won
\* exactly when the new progress is a positive multiple of 420; outside the
\* window neither changes; so in every state the rounds won of an identity
\* are its progress divided by 420.
C20_DigitCollection ==
    [][ /\ (s_last'.kind = "command" /\ s_last'.text = T_pi) =>
             LET nick == s_last'.nick
                 progress == DictGet(st.pi_progress, nick, 0)
                 rounds == DictGet(st.pi_rounds_won, nick, 0)
                 new_progress == DictGet(st'.pi_progress, nick, 0)
                 new_rounds == DictGet(st'.pi_rounds_won, nick, 0)
             IN  IF s_last'.is_pi_time
                 THEN /\ new_progress = progress + 60
                      /\ new_rounds = IF new_progress > 0 /\ new_progress % 420 = 0
                                      THEN rounds + 1 ELSE rounds
                 ELSE new_progress = progress /\ new_rounds = rounds
        /\ \A nick \in Nicks :
             DictGet(st'.pi_rounds_won, nick, 0) = DictGet(st'.pi_progress, nick, 0) \div 420
      ]_vars

\* C20, the case: the eighth invocation inside the window has brought an
\* identity's progress to 480, with the one round won at 420
C20_Witness ==
    /\ s_last.kind = "command"
    /\ s_last.text = T_pi
    /\ s_last.is_pi_time
    /\ DictGet(st.pi_progress, s_last.nick, 0) = 480
    /\ DictGet(st.pi_rounds_won, s_last.nick, 0) = 1

-----------------------------------------------------------------------------
(* Claims on new identities *)

\* the identity has no record in any sub-mapping of the aggregate
NeverSeen(nick, a) ==
    /\ nick \notin DOMAIN a.toke_data
    /\ nick \notin DOMAIN a.toke_counts
    /\ nick \notin DOMAIN a.longest_abstinence
    /\ nick \notin DOMAIN a.user_timezones
    /\ nick \notin DOMAIN a.pi_progress
    /\ nick \notin DOMAIN a.pi_rounds_won
    /\ nick \notin DOMAIN a.toke_history
    /\ nick \notin DOMAIN a.craps_games

\* the one reply of the step is the line `tag` for the identity
NoDataReply(tag) ==
    ~s_last'.sendFailed =>
        s_last'.sent = <<ChatLine(<<"#", "c">>, s_last'.nick \o <<tag>>)>>

\* C21: a mini-game or statistics verb of an identity without any record
\* raises nothing by itself and, unless the send fails, leaves the session in
\* the loop with one reply; the digit collection starts from progress 0 and
\* rounds 0, the dice game from the record (no point, 100 chips, bet 0, 0
\* wins, 0 losses), and the displays and the timezone query change nothing
\* and answer that there is no data yet.
C21_NewIdentities ==
    [][ (s_last'.kind = "command" /\ NeverSeen(s_last'.nick, st)) =>
          LET nick == s_last'.nick
              text == s_last'.text
              first == [point |-> 0, chips |-> 100, bet |-> 0, wins |-> 0, losses |-> 0]
          IN  /\ s_last'.raised => s_last'.sendFailed
              /\ ~s_last'.sendFailed => (s_pc' = "up" /\ Len(s_last'.sent) = 1)
              /\ text = T_pi =>
                   IF s_last'.is_pi_time
                   THEN /\ st'.pi_progress = DictSet(st.pi_progress, nick, 0 + 60)
                        /\ st'.pi_rounds_won = DictSet(st.pi_rounds_won, nick, 0)
                   ELSE st' = st /\ NoDataReply("<pi-none-yet>")
              /\ text = T_pishow => (st' = st /\ NoDataReply("<pi-none-yet>"))
              /\ text = T_tbreak => (st' = st /\ NoDataReply("<no-t-break-data>"))
              /\ text = T_showzone => (st' = st /\ NoDataReply("<no-zone-yet>"))
              /\ text \in {T_craps, T_crapszz, T_status, T_roll, T_cashout} =>
                   st' = [st EXCEPT !.craps_games = DictSet(@, nick, first)]
              /\ text = T_bet5 =>
                   st' = [st EXCEPT !.craps_games =
                                      DictSet(@, nick, [first EXCEPT !.bet = 5, !.chips = 95])]
      ]_vars

\* C21, the case: the first command of an identity was a roll of the dice
\* game; it was answered, the session goes on and the identity has the
\* starting record
C21_Witness ==
    /\ s_last.kind = "command"
    /\ s_last.text = T_roll
    /\ s_last.count = 1
    /\ ~s_last.raised
    /\ Len(s_last.sent) = 1
    /\ s_pc = "up"
    /\ st.craps_games = [n \in {s_last.nick} |-> NewPlayer]

-----------------------------------------------------------------------------
(* Claims on private messages *)

\* the mapping differs from `before` at most at `nick`
OnlyAt(nick, before, after) ==
    /\ DOMAIN after \subseteq DOMAIN before \cup {nick}
    /\ \A n \in DOMAIN before : n # nick => (n \in DOMAIN after /\ after[n] = before[n])

\* C22: a message to the bot's own nickname changes nothing of the aggregate
\* but the sender's entry of user_timezones, and that only through bud-zone;
\* no handler other than the ones of handle_private_command runs; what is
\* written to the state file is the aggregate as it then is (or the write
\* fails); every reply is a PRIVMSG to the sender's nick.
C22_PrivateRestriction ==
    [][ s_last'.kind = "private" =>
          LET nick == s_last'.nick IN
          /\ st' = [st EXCEPT !.user_timezones = st'.user_timezones]
          /\ OnlyAt(nick, st.user_timezones, st'.user_timezones)
          /\ st' # st => s_last'.verb = "bud-zone"
          /\ s_last'.verb \in {"unprefixed", "bud-zone", "unknown"}
          /\ midi' = midi
          /\ blazes' = blazes
          /\ toke_file' # toke_file =>
               /\ s_last'.verb = "bud-zone"
               /\ s_last'.save = "ok" => toke_file' = [kind |-> "pickle", data |-> Data(st')]
          /\ \A i \in 1..Len(s_last'.sent) :
               StartsWith(s_last'.sent[i], PRIVMSG \o <<" ">> \o nick \o <<" ", ":">>)
          /\ s_last'.text # T_hi => (s_last'.sent # <<>> \/ s_last'.sendFailed)
      ]_vars

\* C22, the case: one identity has a timezone and a dice record from channel
\* messages, then the other one has set its timezone in a private message and
\* both replies went to it
C22_Witness ==
    /\ s_last.kind = "private"
    /\ s_last.nick = <<"a">>
    /\ s_last.text = T_zone
    /\ Len(s_last.sent) = 2
    /\ DOMAIN st.user_timezones = {<<"a">>}
    /\ DOMAIN st.craps_games = {<<"z">>}
    /\ toke_file = [kind |-> "pickle", data |-> Data(st)]

\* C22, the other case: a dice-game verb in a private message was answered
\* with the notice and no record was made
C22_WitnessOtherVerb ==
    /\ s_last.kind = "private"
    /\ s_last.text = T_bet5
    /\ s_last.verb = "unknown"
    /\ Len(s_last.sent) = 1
    /\ st.craps_games = <<>>

-----------------------------------------------------------------------------
(* Claims on the identity service *)

\* a line to NickServ that carries the configured password
IsCredentials(sent) ==
    \/ StartsWith(sent, <<"P", "R", "I", "V", "M", "S", "G", " ", "N", "i", "c", "k", "S",
                          "e", "r", "v", " ", ":", "R", "E", "G", "I", "S", "T", "E", "R",
                          " ">> \o config.password)
    \/ StartsWith(sent, <<"P", "R", "I", "V", "M", "S", "G", " ", "N", "i", "c", "k", "S",
                          "e", "r", "v", " ", ":", "I", "D", "E", "N", "T", "I", "F", "Y",
                          " ">> \o config.password)

\* C23 (as claimed): with a NickServ password configured, every JOIN on the
\* wire comes after a REGISTER or IDENTIFY line to NickServ.
C23_CredentialsBeforeJoin ==
    config.password # <<>> =>
        \A i \in 1..Len(wire) :
            IsJoin(wire[i]) => \E j \in 1..(i - 1) : IsCredentials(wire[j])

\* C23, the case: a password is configured together with nickserv_register
\* but without an e-mail address; the welcome was processed, the channels
\* are joined and nothing was sent to NickServ
C23_Witness ==
    /\ config.password # <<>>
    /\ config.register
    /\ config.email = <<>>
    /\ welcomed
    /\ \E i \in 1..Len(wire) : IsJoin(wire[i])
    /\ \A i \in 1..Len(wire) : ~IsCredentials(wire[i])

\* C23, the configurations the claim holds for: the password is sent before
\* the first JOIN when it is configured without nickserv_register, or with
\* nickserv_register and an e-mail address
C23_WitnessSent ==
    /\ config.password # <<>>
    /\ ~config.register
    /\ \E i \in 1..Len(wire) : IsJoin(wire[i])
    /\ IsCredentials(wire[3])

-----------------------------------------------------------------------------
(* Claims on the ends of the process *)

\* C24 (as claimed): when connect() has failed the read loop is not entered,
\* connect() is not called again, and the process ends with a status other
\* than 0, whichever entry point started it.
C24_ConnectFailureFatal ==
    /\ pc \in {"failed", "exit0", "exit1"} =>
         (received = 0 /\ pending = <<>> /\ ~welcomed /\ last = NoStep)
    /\ pc # "exit0"

\* C24, the case: started through run(), the transport could not be opened
\* and the process has ended with status 0
C24_Witness ==
    /\ entry = "run"
    /\ sock = "unconnected"
    /\ wire = <<>>
    /\ pc = "exit0"

\* C24, the entry point the claim holds for: main.py has ended with status 1
C24_WitnessMain ==
    /\ entry = "main"
    /\ sock = "unconnected"
    /\ pc = "exit1"

\* C25 (as claimed): a session that was interrupted in its read loop and is
\* over has written the farewell line and closed the socket.
C25_InterruptFarewell ==
    (last.route = "interrupt" /\ pc \in {"exited", "interrupted"}) =>
        /\ \E i \in 1..Len(wire) : wire[i] = QuitLine \o CRLF
        /\ sock = "closed"

\* C25, the case: started through main.py, the interrupt has ended the
\* process; no farewell is on the wire and the socket was not closed
C25_Witness ==
    /\ entry = "main"
    /\ last.route = "interrupt"
    /\ pc = "interrupted"
    /\ sock = "open"
    /\ \A i \in 1..Len(wire) : wire[i] # QuitLine \o CRLF

\* C25, the entry point the claim holds for: run() has caught the interrupt
\* and its finally clause has sent the farewell and closed the socket
C25_WitnessRun ==
    /\ entry = "run"
    /\ last.route = "interrupt"
    /\ pc = "exited"
    /\ sock = "closed"
    /\ wire[Len(wire)] = QuitLine \o CRLF

-----------------------------------------------------------------------------
(* Claims on the threads *)

\* C26: in a session started through run() or main.py the monitor thread is
\* never started, and every change of the timezone mapping or of the state
\* file is made by a step of the read loop's body.
C26_SingleWriter ==
    [][ /\ "monitor_420" \notin threads'
        /\ threads' \subseteq ThreadsAtStart(entry)
        /\ (user_timezones' # user_timezones \/ saved' # saved) =>
             (pc = "lines" /\ last'.route \in {"channel", "private"})
        /\ UNCHANGED <<t_pc, active_420_windows>> ]_vars

\* C26, the case: a session started through main.py is in listen(), the read
\* loop has written the state file, and the web server is the only
\* background thread
C26_Witness ==
    /\ entry = "main"
    /\ pc \in {"listen", "lines"}
    /\ threads = {"web_server"}
    /\ saved # <<>>
    /\ last.route = "channel"

\* C27: once the monitor thread runs, nothing makes a thread that is about
\* to open the state file for writing wait for the other one; the two mutate
\* the one aggregate and write the one file.
C27_NoMutualExclusion ==
    "monitor_420" \in threads =>
        \A t \in Threads : t_pc[t] = "save" => ENABLED OpenFile(t)

\* C27, the case: the monitor has awarded a point, a handler has stored a
\* timezone, and both are between open() and the end of pickle.dump
C27_Witness ==
    /\ "monitor_420" \in threads
    /\ t_pc["main"] = "raced"
    /\ t_pc["monitor"] = "raced"
    /\ toke_file = [kind |-> "empty"]
    /\ st.auto_420_points # <<>>

\* C27, what may follow: the file holds neither thread's data
C27_WitnessMixed ==
    /\ t_pc["main"] = "send"
    /\ t_pc["monitor"] = "send"
    /\ toke_file = [kind |-> "corrupt"]

-----------------------------------------------------------------------------
(* Claims on the short identity *)

\* C28: for a line the parser accepts, the prefix is the first field without
\* its leading ':' (empty when the field has none), and the short identity
\* is the part of the prefix before its first '!', empty when the prefix has
\* no '!'; so 'nick!user@host' gives 'nick'.
C28_ShortIdentity ==
    (p_out.done /\ p_out.parsed.kind = "msg") =>
        LET source == Fields(p_line)[1]
            prefix == IF StartsWith(source, <<":">>) THEN DropN(source, 1) ELSE <<>>
            bangs == {i \in 1..Len(prefix) : prefix[i] = "!"}
        IN  /\ p_out.parsed.prefix = prefix
            /\ IF bangs = {} THEN p_out.parsed.nick = <<>>
               ELSE \E i \in bangs :
                      /\ \A j \in bangs : i <= j
                      /\ p_out.parsed.nick = SubSeq(prefix, 1, i - 1)
            /\ p_line = L_fullprefix => p_out.parsed.nick = <<"n", "i", "c", "k">>

\* C28, the case: the line from nick!user@host has been parsed
C28_Witness ==
    /\ p_out.done
    /\ p_line = L_fullprefix
    /\ p_out.parsed.prefix = <<"n", "i", "c", "k", "!", "u", "s", "e", "r", "@", "h", "o",
                               "s", "t">>
    /\ p_out.parsed.nick = <<"n", "i", "c", "k">>

\* C28, the other cases: a prefix with two '!' and a prefix without one
C28_WitnessTwo ==
    /\ p_out.done
    /\ p_out.parsed.kind = "msg"
    /\ p_out.parsed.prefix = <<"a", "!", "!">>
    /\ p_out.parsed.nick = <<"a">>

C28_WitnessNone ==
    /\ p_out.done
    /\ p_out.parsed.kind = "msg"
    /\ p_out.parsed.prefix = <<"a">>
    /\ p_out.parsed.nick = <<>>

-----------------------------------------------------------------------------
(* Claims on the tracker verbs *)

\* C29 (as claimed): toke, joint and dab in a channel set the identity's
\* last-action timestamp, add one to its counter, append to its history,
\* save the aggregate and send nothing.
C29_SilentTrackers ==
    [][ (s_last'.kind = "command" /\ s_last'.text \in SilentTexts) =>
          LET nick == s_last'.nick IN
          /\ s_last'.sent = <<>>
          /\ ~s_last'.raised
          /\ nick \in DOMAIN st'.toke_data
          /\ DictGet(st'.toke_counts, nick, 0) = DictGet(st.toke_counts, nick, 0) + 1
          /\ Len(DictGet(st'.toke_history, nick, <<>>))
               = Len(DictGet(st.toke_history, nick, <<>>)) + 1
          /\ s_last'.save # "-"
      ]_vars

\* C29, the case: '!toke', the second command of the run, was taken as an
\* unknown verb: nothing is recorded, nothing is saved, nothing is sent
C29_Witness ==
    /\ s_last.kind = "command"
    /\ s_last.text = T_toke
    /\ s_last.verb = "unknown"
    /\ s_last.count = 2
    /\ s_last.sent = <<>>
    /\ s_last.save = "-"
    /\ st = EmptyAggregate
    /\ toke_file = [kind |-> "absent"]

\* C29, the one verb that tracks: blaze records the action and replies
C29_WitnessBlaze ==
    /\ s_last.kind = "command"
    /\ s_last.text = T_blaze
    /\ Len(s_last.sent) = 1
    /\ s_last.save = "ok"
    /\ DictGet(st.toke_counts, s_last.nick, 0) = 1

-----------------------------------------------------------------------------
(* Claims on the dice game *)

\* the dice record of an identity, the starting record when it has none
RecordOf(a, nick) == DictGet(a.craps_games, nick, NewPlayer)

\* the total the reply of a roll shows
ShownTotal(sent) ==
    LET line == sent[1] IN
    CHOOSE t \in Dice : ToString(t) = line[Len(line)]

\* C30: a roll with bet 0 leaves the identity's record as it is.  With a bet
\* and no point, 7 or 11 wins (twice the bet is added to the chips), 2, 3 or
\* 12 loses, any other total becomes the point and the bet stays.  With a
\* point, the point wins, 7 loses, any other total changes nothing.  Every
\* win or loss sets the bet to 0 and the point to none.
C30_RollRules ==
    [][ (s_last'.kind = "command" /\ s_last'.text = T_roll /\ ~s_last'.sendFailed) =>
          LET nick == s_last'.nick
              old == RecordOf(st, nick)
              new == RecordOf(st', nick)
              total == ShownTotal(s_last'.sent)
              won == [old EXCEPT !.chips = @ + 2 * old.bet, !.wins = @ + 1,
                                 !.bet = 0, !.point = 0]
              lost == [old EXCEPT !.losses = @ + 1, !.bet = 0, !.point = 0]
          IN  /\ \A n \in DOMAIN st.craps_games : n # nick =>
                   RecordOf(st', n) = st.craps_games[n]
              /\ IF old.bet = 0 THEN new = old
                 ELSE IF old.point = 0
                 THEN new = (IF total \in {7, 11} THEN won
                             ELSE IF total \in {2, 3, 12} THEN lost
                             ELSE [old EXCEPT !.point = total])
                 ELSE new = (IF total = old.point THEN won
                             ELSE IF total = 7 THEN lost
                             ELSE old)
      ]_vars

\* C30, the case: a bet of 5, a roll that set the point, and a roll of the
\* point: 105 chips, one win, no bet, no point
C30_Witness ==
    /\ s_last.kind = "command"
    /\ s_last.text = T_roll
    /\ s_last.count = 3
    /\ Len(s_last.sent) = 1
    /\ s_last.sent[1][Len(s_last.sent[1]) - 2] = "<craps-point-made>"
    /\ RecordOf(st, s_last.nick) =
         [point |-> 0, chips |-> 105, bet |-> 0, wins |-> 1, losses |-> 0]

\* C30, the other cases: a roll that is neither the point nor 7, and a roll
\* without a bet
C30_WitnessKeepRolling ==
    /\ s_last.kind = "command"
    /\ s_last.text = T_roll
    /\ Len(s_last.sent) = 1
    /\ s_last.sent[1][Len(s_last.sent[1]) - 2] = "<craps-keep-rolling>"
    /\ RecordOf(st, s_last.nick).bet = 5
    /\ RecordOf(st, s_last.nick).point # 0

C30_WitnessNoBet ==
    /\ s_last.kind = "command"
    /\ s_last.text = T_roll
    /\ s_last.count = 3
    /\ Len(s_last.sent) = 1
    /\ s_last.nick \in DOMAIN st.craps_games
    /\ st.craps_games[s_last.nick].losses = 1
    /\ s_last.sent[1][Len(s_last.sent[1]) - 1] = "<craps-bet-first>"

\* chips + bet of a record
Stake(p) == p.chips + p.bet

\* C31: the sum chips + bet of an identity is 100 at its first command; a
\* dice-game command changes it only in a roll: by + bet together with one
\* more win, or by - bet together with one more loss; status, bet (taken or
\* refused), cashout and a roll that resolves nothing leave the sum, the
\* wins and the losses as they are; cashout returns the whole bet; no
\* command changes another identity's record.
C31_ChipConservation ==
    [][ (s_last'.kind = "command" /\ s_last'.text \in ChipTexts) =>
          LET nick == s_last'.nick
              old == RecordOf(st, nick)
              new == RecordOf(st', nick)
              won == new.wins = old.wins + 1
              lost == new.losses = old.losses + 1
          IN  /\ nick \notin DOMAIN st.craps_games => Stake(old) = 100
              /\ \A n \in DOMAIN st.craps_games \ {nick} :
                   n \in DOMAIN st'.craps_games /\ st'.craps_games[n] = st.craps_games[n]
              /\ DOMAIN st'.craps_games \subseteq DOMAIN st.craps_games \cup {nick}
              /\ new.wins \in {old.wins, old.wins + 1}
              /\ new.losses \in {old.losses, old.losses + 1}
              /\ ~(won /\ lost)
              /\ Stake(new) = (IF won THEN Stake(old) + old.bet
                               ELSE IF lost THEN Stake(old) - old.bet
                               ELSE Stake(old))
              /\ (won \/ lost) => (s_last'.text = T_roll /\ old.bet > 0)
              /\ (s_last'.text = T_cashout /\ old.bet > 0) =>
                   new = [old EXCEPT !.chips = old.chips + old.bet, !.bet = 0, !.point = 0]
      ]_vars

\* C31, the case: a bet of 5, a roll that set the point, and a cashout: the
\* identity has its 100 chips again, no bet, no point, no win and no loss
C31_Witness ==
    /\ s_last.kind = "command"
    /\ s_last.text = T_cashout
    /\ s_last.count = 3
    /\ s_last.save = "ok"
    /\ Len(s_last.sent) = 1
    /\ \E i \in 1..Len(s_last.sent[1]) : s_last.sent[1][i] = "<craps-cashed-out>"
    /\ toke_file.kind = "pickle"
    /\ RecordOf(st, s_last.nick) = NewPlayer
    /\ s_last.nick \in DOMAIN st.craps_games

\* C32: every dice record has chips, bet, wins and losses of at least 0, a
\* point that is none or one of 4, 5, 6, 8, 9, 10, and a point only with a
\* bet.
C32_RecordInvariant ==
    \A n \in DOMAIN st.craps_games :
        LET p == st.craps_games[n] IN
        /\ p.chips >= 0
        /\ p.bet >= 0
        /\ p.wins >= 0
        /\ p.losses >= 0
        /\ p.point \in {0, 4, 5, 6, 8, 9, 10}
        /\ p.point # 0 => p.bet > 0

\* C32, the case: an identity has bet all its chips and rolled a point
C32_Witness ==
    \E n \in DOMAIN st.craps_games :
        /\ st.craps_games[n].chips = 0
        /\ st.craps_games[n].bet = 100
        /\ st.craps_games[n].point = 4

-----------------------------------------------------------------------------
(* Claims on the tracker's sub-mappings *)

\* the four tracker sub-mappings of the aggregate agree on the identity
TrackerConsistent(a, nick) ==
    IF nick \in DOMAIN a.toke_data
    THEN /\ nick \in DOMAIN a.toke_counts
         /\ nick \in DOMAIN a.longest_abstinence
         /\ nick \in DOMAIN a.toke_history
         /\ a.toke_counts[nick] = Len(a.toke_history[nick])
         /\ a.toke_history[nick] # <<>>
         /\ a.toke_data[nick] = a.toke_history[nick][Len(a.toke_history[nick])]
    ELSE /\ nick \notin DOMAIN a.toke_counts
         /\ nick \notin DOMAIN a.longest_abstinence
         /\ nick \notin DOMAIN a.toke_history

\* C33: after every step, every identity is a key of toke_data, toke_counts,
\* longest_abstinence and toke_history together or of none of them, its
\* counter is the length of its history, its timestamp is the last entry of
\* its history; and a command leaves every history as it was or with one
\* entry appended.
C33_TrackerConsistency ==
    [][ /\ \A nick \in Nicks : TrackerConsistent(st', nick)
        /\ DOMAIN st'.toke_data \subseteq Nicks
        /\ s_last'.kind = "command" =>
             \A nick \in DOMAIN st.toke_history :
                 /\ nick \in DOMAIN st'.toke_history
                 /\ \/ st'.toke_history[nick] = st.toke_history[nick]
                    \/ /\ s_last'.nick = nick
                       /\ st'.toke_history[nick]
                            = Append(st.toke_history[nick], s_last'.current_time)
      ]_vars

\* C33, the case: an identity has invoked the tracker at clock value 30 and
\* then at clock value 20, the other identity never
C33_Witness ==
    /\ s_pc = "up"
    /\ DOMAIN st.toke_history = {<<"a">>}
    /\ st.toke_history[<<"a">>] = <<30, 20>>
    /\ st.toke_counts[<<"a">>] = 2
    /\ st.toke_data[<<"a">>] = 20
    /\ <<"z">> \notin DOMAIN st.longest_abstinence

\* C34: for every identity with at least two history entries, the stored
\* longest gap equals, in whole seconds, the longest gap between consecutive
\* entries of the sorted history that the gap report computes.
C34_LongestGapsAgree ==
    s_pc \in {"up", "down"} =>
        \A nick \in DOMAIN st.toke_history :
            Len(st.toke_history[nick]) >= 2 =>
                /\ nick \in DOMAIN st.longest_abstinence
                /\ st.longest_abstinence[nick]
                       = IntSeconds(LongestGap(st.toke_history[nick]))

\* C34, the divergence: the clock went back between the two tracker
\* invocations of an identity (30 then 20, in half seconds); the stored
\* longest gap is 0, the longest gap of the sorted history is 5 seconds
C34_Witness ==
    /\ s_pc = "up"
    /\ <<"a">> \in DOMAIN st.toke_history
    /\ st.toke_history[<<"a">>] = <<30, 20>>
    /\ st.longest_abstinence[<<"a">>] = 0
    /\ IntSeconds(LongestGap(st.toke_history[<<"a">>])) = 5

\* C34, the case where the two agree: the clock increased (20 then 30), the
\* stored longest gap and the gap of the report are both 5 seconds, and the
\* report has just been sent
C34_WitnessAgree ==
    /\ s_last.kind = "command"
    /\ s_last.text = T_tbreak
    /\ s_last.nick = <<"a">>
    /\ <<"a">> \in DOMAIN st.toke_history
    /\ st.toke_history[<<"a">>] = <<20, 30>>
    /\ st.longest_abstinence[<<"a">>] = 5
    /\ Len(s_last.sent) = 1
    /\ Contains(s_last.sent[1], <<"<longest-t-break>", "5", "s">>)

\* C34, the clock never went back: every history is in non-decreasing order
C34_AgreeWhenClockIncreases ==
    (s_pc \in {"up", "down"}
     /\ \A nick \in DOMAIN st.toke_history :
            \A i \in 2..Len(st.toke_history[nick]) :
                st.toke_history[nick][i - 1] <= st.toke_history[nick][i])
    => C34_LongestGapsAgree

\* the line is a chat message, to a channel or to the bot, whose text starts
\* with the command prefix and has no verb after it
PrefixOnly(line) ==
    LET parsed_msg == ParseMessage(line) IN
    /\ ~StartsWith(line, <<"P", "I", "N", "G">>)
    /\ parsed_msg.kind = "msg"
    /\ parsed_msg.command = PRIVMSG
    /\ (StartsWith(parsed_msg.target, <<"#">>) \/ parsed_msg.target = server_nickname)
    /\ StartsWith(parsed_msg.message, command_prefix)
    /\ SplitWS(DropN(parsed_msg.message, Len(command_prefix))) = <<>>

\* C35 (as claimed): a chat message with the prefix and no verb is ignored:
\* the step that takes it writes nothing, changes no state, raises nothing
\* and leaves the session in its loop, ready for the later lines.
C35_PrefixOnlyIgnored ==
    [][ (pc = "lines" /\ PrefixOnly(CurrentLine)) =>
          /\ Written = <<>>
          /\ StateKept
          /\ ~last'.raised
          /\ pc' \in {"listen", "lines"} ]_vars

\* C35, the divergence: the line ':a!u PRIVMSG #c :!' came first in a chunk of
\* two; the handler raised IndexError, the loop was left through
\* disconnect() and the second line was never processed
C35_Witness ==
    /\ pc = "exited"
    /\ last.route = "channel"
    /\ last.verb = "IndexError"
    /\ last.raised
    /\ pending # <<>>
    /\ sock = "closed"
    /\ wire = Sent(Registration, Len(Registration)) \o <<QuitLine \o CRLF>>

\* C35, the part that holds: the step that takes such a line writes nothing
\* and changes no state of the bot
C35_PrefixOnlySilent ==
    [][ (pc = "lines" /\ PrefixOnly(CurrentLine)) => (Written = <<>> /\ StateKept) ]_vars

-----------------------------------------------------------------------------
(* Claims on the state file of the old format *)

\* C36 (as claimed): constructing the bot on a state file of the old format
\* succeeds with the file's timestamps as last-action timestamps and every
\* other sub-mapping and flag at its default; afterwards no command fails on
\* a missing attribute and no write of the state file does, as after a
\* fresh start.
C36_LegacyMigration ==
    [][ /\ (s_last'.kind = "construct" /\ toke_file.kind = "oldformat") =>
             /\ s_pc' = "up"
             /\ st'.toke_data = toke_file.data
             /\ [st' EXCEPT !.toke_data = <<>>] = EmptyAggregate
        /\ s_last'.kind = "command" =>
             /\ s_last'.verb # "AttributeError"
             /\ s_last'.save # "AttributeError" ]_vars

\* C36, the divergence: after a start on the old format the bot has no
\* time_format_mode and no auto_420_points; a blaze command was counted in
\* memory and answered, its save_toke_data opened the file for writing and
\* raised AttributeError while building the dict: the file is empty
C36_Witness ==
    /\ s_last.kind = "command"
    /\ s_last.verb = "blaze"
    /\ s_last.starts = 1
    /\ s_last.count = 1
    /\ s_last.save = "AttributeError"
    /\ ~s_last.raised
    /\ st.unset = {"time_format_mode", "auto_420_points"}
    /\ s_last.nick \in DOMAIN st.toke_counts
    /\ toke_file = [kind |-> "empty"]

\* C36, the other divergence: after a start on the old format the time
\* verb has raised AttributeError before any reply, which ends the session
C36_WitnessTime ==
    /\ s_last.kind = "command"
    /\ s_last.verb = "AttributeError"
    /\ s_last.text = T_time
    /\ s_last.raised
    /\ s_last.sent = <<>>
    /\ s_pc = "down"
    /\ toke_file = LegacyFile

\* C36, the part that holds: the start succeeds, the timestamps are the
\* file's and the ten mappings the old-format branch assigns are empty
C36_LegacyLoads ==
    [][ (s_last'.kind = "construct" /\ toke_file.kind = "oldformat") =>
          /\ s_pc' = "up"
          /\ st'.toke_data = toke_file.data
          /\ [st' EXCEPT !.toke_data = <<>>, !.unset = {}] = EmptyAggregate ]_vars

-----------------------------------------------------------------------------
(* Claims on the second disconnect() *)

\* the number of farewell lines among the lines `w`
RECURSIVE Farewells(_)
Farewells(w) ==
    IF w = <<>> THEN 0
    ELSE (IF Head(w) = SendRaw(QuitLine) THEN 1 ELSE 0) + Farewells(Tail(w))

\* C37 (as claimed): a session writes the farewell line at most once, and
\* the disconnect() that run() calls after listen() has closed the socket
\* writes nothing and raises nothing.
C37_TeardownIdempotent ==
    [][ /\ Farewells(wire') <= 1
        /\ (pc = "finally" /\ sock = "closed") =>
             /\ wire' = wire
             /\ pc' = "exited"
             /\ last'.verb # "OSError" ]_vars

\* C37, the divergence: listen() has sent the farewell and closed the
\* socket, and the disconnect() of run()'s finally clause has raised OSError
\* from the send on the closed socket
C37_Witness ==
    /\ pc = "exited"
    /\ entry = "run"
    /\ sock = "closed"
    /\ ~connected
    /\ Farewells(wire) = 1
    /\ last.route = "finally"
    /\ last.verb = "OSError"
    /\ last.raised

\* C37, the part that holds: no session writes the farewell line twice, and
\* nothing is written to a closed socket
C37_FarewellAtMostOnce ==
    [][ /\ Farewells(wire') <= 1
        /\ sock = "closed" => wire' = wire ]_vars

-----------------------------------------------------------------------------
(* Claims on the precision timing *)

\* the time between two calls, in half hours, is within one hour of 12, 24,
\* 36 or 48 hours, the boundaries included
OnCycle(gap) == \E hours \in {12, 24, 36, 48} : 2 * hours - 2 <= gap /\ gap <= 2 * hours + 2

\* C38: the first call for an identity sets its streak to 1; a later call
\* adds one to the perfect-cycle count and to the streak exactly when the
\* time since the previous call is within one hour of 12, 24, 36 or 48
\* hours, and otherwise resets the streak to 0 and leaves the count; every
\* call adds one to the total, stores the call time and does not raise the
\* best offset; the records of the other identities stay.
C38_CycleScoring ==
    [][ p_out'.done =>
          LET nick == p_out'.nick
              first == nick \notin DOMAIN st.precision_timing
              before == DictGet(st.precision_timing, nick, NewTiming)
              after == st'.precision_timing[nick]
              gap == p_out'.current_time - before.last_420_time
          IN  /\ nick \in DOMAIN st'.precision_timing
              /\ first => (after.cycle_streak = 1 /\ after.perfect_cycles = 0
                           /\ ~p_out'.is_perfect_cycle)
              /\ (~first /\ OnCycle(gap)) =>
                     /\ p_out'.is_perfect_cycle
                     /\ after.perfect_cycles = before.perfect_cycles + 1
                     /\ after.cycle_streak = before.cycle_streak + 1
              /\ (~first /\ ~OnCycle(gap)) =>
                     /\ ~p_out'.is_perfect_cycle
                     /\ after.perfect_cycles = before.perfect_cycles
                     /\ after.cycle_streak = 0
              /\ after.total_420s = before.total_420s + 1
              /\ after.last_420_time = p_out'.current_time
              /\ after.best_precision <= before.best_precision
              /\ \A other \in DOMAIN st.precision_timing \ {nick} :
                     st'.precision_timing[other] = st.precision_timing[other] ]_vars

\* C38, the case: three calls for one identity, the second exactly 11 hours
\* after the first (a perfect cycle), the third exactly 13 hours after the
\* second (a perfect cycle again): two perfect cycles, a streak of 3
C38_Witness ==
    /\ p_out.done
    /\ p_out.calls = 3
    /\ p_out.nick = <<"a">>
    /\ p_out.current_time = 50
    /\ p_out.is_perfect_cycle
    /\ DOMAIN st.precision_timing = {<<"a">>}
    /\ st.precision_timing[<<"a">>] =
           [last_420_time |-> 50, perfect_cycles |-> 2, total_420s |-> 3,
            best_precision |-> 0, cycle_streak |-> 3]

\* C38, the case of a broken cycle: the second call came 13.5 hours after
\* the first and has reset the streak; the best offset is the 0 of the first call
C38_WitnessReset ==
    /\ p_out.done
    /\ p_out.calls = 2
    /\ p_out.nick = <<"a">>
    /\ p_out.current_time = 50
    /\ ~p_out.is_perfect_cycle
    /\ p_out.seconds_from_420 = 1740
    /\ st.precision_timing[<<"a">>] =
           [last_420_time |-> 50, perfect_cycles |-> 0, total_420s |-> 2,
            best_precision |-> 0, cycle_streak |-> 0]

-----------------------------------------------------------------------------
(* Claims on the 4:20 windows *)

\* the automatic points of nick in the aggregate a
AutoPoints(a, nick) == DictGet(a.auto_420_points, nick, 0)

\* C39: while the monitor runs, an identity with a timezone gets at most one
\* automatic point in each contiguous 4:20 minute of its timezone, however
\* many scans fall inside the minute, so never more points than such
\* minutes have begun; the point comes with the announcement for each
\* configured channel, in order, up to a failing send; and the window of an
\* identity is cleared only by a scan that finds the identity outside 4:20.
C39_OnePointPerWindow ==
    [][ \A nick \in Nicks :
          LET now == clock_420[nick]
              next == clock_420'[nick]
              lines == SubSeq(next.sent, Len(now.sent) + 1, Len(next.sent))
          IN  /\ next.awards <= 1
              /\ AutoPoints(st', nick) <= next.minutes
              /\ AutoPoints(st', nick) \in {AutoPoints(st, nick), AutoPoints(st, nick) + 1}
              /\ AutoPoints(st', nick) = AutoPoints(st, nick) + 1 =>
                     /\ now.is_420
                     /\ now.awards = 0
                     /\ nick \notin active_420_windows
                     /\ nick \in active_420_windows'
                     /\ Len(lines) <= Len(channels)
                     /\ \A i \in 1..Len(lines) :
                            lines[i] = SendRaw(ChatLine(channels[i],
                                                        <<"<its-420>", now.period>> \o nick))
              /\ AutoPoints(st', nick) = AutoPoints(st, nick) =>
                     next.sent \in {now.sent, <<>>}
              /\ (nick \in active_420_windows /\ nick \notin active_420_windows') =>
                     (~now.is_420 /\ next = now) ]_vars

\* C39, the case: the second 4:20 minute of an identity, whose window a scan
\* had cleared in between; two scans fell inside this minute, the first
\* awarded the second point and announced it in both channels, the second
\* awarded nothing
C39_Witness ==
    /\ "monitor_420" \in threads
    /\ clock_420[<<"a">>].is_420
    /\ clock_420[<<"a">>].minutes = 2
    /\ clock_420[<<"a">>].scans = 2
    /\ clock_420[<<"a">>].awards = 1
    /\ Len(clock_420[<<"a">>].sent) = Len(channels)
    /\ AutoPoints(st, <<"a">>) = 2
    /\ <<"a">> \in active_420_windows

\* C39, the case of a window that no scan has cleared: no scan saw the
\* identity between its two 4:20 minutes, and the scans of the second
\* minute award nothing
C39_WitnessNotRearmed ==
    /\ "monitor_420" \in threads
    /\ clock_420[<<"a">>].is_420
    /\ clock_420[<<"a">>].minutes = 2
    /\ clock_420[<<"a">>].scans = 2
    /\ clock_420[<<"a">>].awards = 0
    /\ AutoPoints(st, <<"a">>) = 1
    /\ <<"a">> \in active_420_windows

-----------------------------------------------------------------------------
(* Claims on the playback workers *)

\* the workers that have not ended
ActiveWorkers(simple_player) ==
    { w \in 1..Len(simple_player.workers) : simple_player.workers[w].at # "done" }

\* C40 (as claimed): at most one playback worker is active at any time; a
\* play while the flag is set starts none; and a worker that is not the one
\* of the latest play logs no note and does not clear the playing flag.
C40_SinglePlaybackWorker ==
    [][ /\ Cardinality(ActiveWorkers(midi_player')) <= 1
        /\ (midi_player.playing /\ midi_player'.did.actor = 0
            /\ midi_player'.did.op \in {"play", "refused"}) =>
               (midi_player'.workers = midi_player.workers
                /\ midi_player'.did.op = "refused")
        /\ \A w \in 1..Len(midi_player.workers) :
             w # midi_player.play_thread =>
               /\ midi_player'.workers[w].notes = midi_player.workers[w].notes
               /\ (midi_player'.did = [actor |-> w, op |-> "finally"] /\ midi_player.playing)
                    => midi_player'.playing ]_vars

\* C40, the divergence: the first worker was asleep when stop() gave up
\* its join after a second; a second play was accepted; the first worker
\* woke up, found the flag set again and has logged its second note while
\* the second worker is playing
C40_Witness ==
    /\ Len(midi_player.workers) = 2
    /\ midi_player.play_thread = 2
    /\ midi_player.playing
    /\ midi_player.workers[2].at \in {"loop", "wait"}
    /\ midi_player.workers[1].notes = 2
    /\ midi_player.did = [actor |-> 1, op |-> "on"]

\* C40, the other divergence: the first worker has ended and its finally
\* clause has cleared the flag of the second playback, which is not over
C40_WitnessFlag ==
    /\ Len(midi_player.workers) = 2
    /\ midi_player.play_thread = 2
    /\ ~midi_player.playing
    /\ midi_player.stop_at = "-"
    /\ midi_player.workers[1].at = "done"
    /\ midi_player.workers[2].at = "wait"
    /\ midi_player.did = [actor |-> 1, op |-> "finally"]

\* C40, the part that holds: a play while the flag is set is refused and
\* starts no worker
C40_RefusedWhilePlaying ==
    [][ (midi_player.playing /\ midi_player'.did.actor = 0
         /\ midi_player'.did.op \in {"play", "refused"}) =>
            (midi_player'.workers = midi_player.workers
             /\ midi_player'.did.op = "refused") ]_vars

====
